---- MODULE Spec2Model ----
(***************************************************************************)
(* Multi-persona panel discussion: session store, turn orchestrator and    *)
(* the request handlers that drive them (psychiatrist_panel.py,            *)
(* psychiatrist_api.py).                                                   *)
(*                                                                         *)
(* A PanelSession is an object of the heap; _active_sessions maps session  *)
(* ids to objects.  A turn is one run of the generator iter_panel_responses *)
(* on a session object.  Every action of a turn is the code the generator  *)
(* runs between two suspension points (from a resume to the next yield, or *)
(* to its return), so turns of different requests interleave at the yields.*)
(***************************************************************************)
EXTENDS Integers, Sequences, FiniteSets, TLC

(* ------------------------------------------------------------------ *)
(* Bounds of the model                                                 *)
(* ------------------------------------------------------------------ *)
\* turns started in a run (every session a request starts also starts a turn)
MaxTurns == 2
\* steps of the clock in a run
MaxTicks == 1
\* sessions created in a run of the store operations
MaxSessions == 2
\* turns a caller of the turn orchestrator runs on its session
MaxCalls == 5

(* ------------------------------------------------------------------ *)
(* Program constants and configuration data                            *)
(* ------------------------------------------------------------------ *)
SESSION_TTL_SECONDS == 60 * 30
DEFAULT_MOOD == "neutral"
MAX_PREVIOUS_EXCHANGES == 3
DEFAULT_SUMMARY_THRESHOLD == 3
VALID_MOODS == {"thinking", "amused", "concerned", "shocked", "neutral"}

None == "None"
\* None where a session object is expected; objects are numbered from 1
NoSession == 0
\* None where a datetime is expected
NoDate == -1

\* One step of the clock takes a session that is not touched past the default ttl
TickSeconds == SESSION_TTL_SECONDS + 1
\* The values of the injected parameters now and ttl_seconds: with them a stored
\* session is younger than the ttl, exactly as old, or older
NowInputs == {0, 2 * TickSeconds}
TtlInputs == {0, TickSeconds}

\* Session ids are numbers: n stands for "panel-" and 12 hex digits.  Of the 122
\* random bits of a uuid4 draw 48 are kept, so a draw is an id not issued before or,
\* rarely, one issued already: the first id stands for those.
uuid4(h) == {1, Len(h) + 1}
\* The draws that repeat no id issued before
FreshIds(h) == {sid \in uuid4(h) : \A o \in DOMAIN h : h[o].session_id # sid}
\* The session ids a caller can name: the ids issued so far and one never issued
SessionIdInputs(h) == 1..(Len(h) + 1)

\* PERSONAS of psychiatrist_api.py: the persona ids that have a configuration
PERSONAS == {"dr-sigmund-2000", "dr-ada-sterling", "captain-whiskers"}

\* The order of the keys of the personas configuration
PersonaOrder == <<"dr-sigmund-2000", "dr-ada-sterling", "captain-whiskers", "dr-mei-li">>

\* persona_config.get('name'): the names the personas have in the fixtures of the
\* tests, and that of a persona a caller of detect_persona_references may pass
\* besides, whose last word is short
persona_name(persona_id) ==
    CASE persona_id = "dr-sigmund-2000" -> "Dr. Sigmund 2000"
      [] persona_id = "dr-ada-sterling" -> "Dr. Ada Sterling"
      [] persona_id = "captain-whiskers" -> "Captain Whiskers, PhD"
      [] persona_id = "dr-mei-li" -> "Dr. Mei Li, MD"

\* The personas configurations detect_persona_references is called with
DetectConfigs == {PERSONAS \cup {"dr-mei-li"}, {"dr-ada-sterling", "captain-whiskers"}}
\* The texts detect_persona_references is called with
DetectTexts ==
    {"I agree with Dr. Sigmund's point",
     "reply",
     "STERLING said so",
     "dr. ada sterling and Captain Whiskers, PhD",
     "Back in 2000",
     "Ada and Sigmund like Mei",
     "As Dr. Mei LI put it"}

\* _panel_configs after load_panel_configs: template id -> persona_ids
\* ("tough-love" names a persona that has no configuration in PERSONAS)
\* and, for the templates a configuration file may hold besides, one with a single
\* persona ("solo": load_panel_configs does not look at the persona_ids)
_panel_configs ==
    [c \in {"balanced", "tough-love", "solo"} |->
        IF c = "balanced"
        THEN <<"dr-sigmund-2000", "dr-ada-sterling", "captain-whiskers">>
        ELSE IF c = "tough-love"
        THEN <<"dr-rex-hardcastle", "dr-ada-sterling">>
        ELSE <<"dr-ada-sterling">>]

\* personas_config=None of create_custom_panel_session: no mapping to validate with
NoMapping == {None}
\* The arguments of the creation functions
TemplateInputs == {"balanced", "solo", "no-such-panel"}
CustomInputs ==
    {<<"dr-sigmund-2000">>,
     <<"dr-sigmund-2000", "dr-ada-sterling">>,
     <<"dr-sigmund-2000", "dr-nobody">>,
     <<"dr-nobody", "dr-ada-sterling", "dr-nemo">>,
     <<"dr-sigmund-2000", "dr-ada-sterling", "captain-whiskers", "dr-sigmund-2000",
       "dr-ada-sterling">>}
MappingInputs == {NoMapping, PERSONAS}

\* The panels a start request asks for: persona_ids (a custom panel) or panel_config
PanelInputs ==
    {[persona_ids |-> <<"dr-sigmund-2000", "dr-ada-sterling">>, panel_config |-> None],
     [persona_ids |-> <<>>, panel_config |-> "tough-love"],
     [persona_ids |-> <<>>, panel_config |-> "no-such-panel"],
     [persona_ids |-> <<"dr-sigmund-2000">>, panel_config |-> None]}
\* The panels a caller of the store operations creates its sessions for
CreateInputs == {p \in PanelInputs : Len(p.persona_ids) > 0}
\* The user messages a caller of the turn orchestrator passes
CallMessages == {"", "Start", "Continue"}
\* The arguments should_generate_summary is called with after the session: none, or
\* a threshold
ThresholdInputs == {<<>>, <<0>>, <<1>>, <<5>>}
StartMessages == {"", "Start"}
UserMessages == {"", "Start", "Continue"}
\* The messages build_discussion_context is called with by a caller of the module
ContextMessages == CallMessages \cup {"   ", " \t\n", " Go on "}
SkipInputs == {{}, {"dr-ada-sterling"}}

\* What one call of the generative service does: raise, or return a reply
ServiceReplies == {[raises |-> TRUE, mood |-> None, response |-> None],
                   [raises |-> FALSE, mood |-> "thinking", response |-> "reply"]}
\* The replies of a service that is up
ReliableReplies == {r \in ServiceReplies : ~r.raises}
\* Replies of a service that is up, by their text: one that names a panelist, one
\* that names nobody, an empty one
ReplyTexts == {"I agree with Dr. Sigmund's point", "reply", ""}
WordedReplies == {[raises |-> FALSE, mood |-> "thinking", response |-> r] : r \in ReplyTexts}

\* _moderator after load_panel_configs: the 'moderator' of the configuration file
\* (the one of the fixture of the tests), or nothing when the file has none
ModeratorInputs == {[loaded |-> TRUE, name |-> "Dr. Panel"],
                    [loaded |-> FALSE, name |-> None]}
\* What the service does when it is asked for the intro of the moderator
IntroReplies ==
    {[raises |-> TRUE, text |-> None],
     [raises |-> FALSE, text |-> " Welcome to the panel. "],
     [raises |-> FALSE, text |-> "Welcome"]}
\* What the service does when it is asked for a summary
SummaryReplies ==
    {[raises |-> TRUE, text |-> None],
     [raises |-> FALSE,
      text |-> "Here: {\"summary\": \"Dr. Ada Sterling was heard.\", \"key_insights\": [\"Rest\"]}"],
     [raises |-> FALSE, text |-> "The panel talked."]}

\* What the service does when a persona is asked: raise, or return a text.  The
\* texts: a JSON document between other words, documents with a mood that is not
\* one of the five, without a mood, with an empty or blank response and without a
\* response, braces around something that is no JSON, no braces at all, nothing,
\* spaces, and a JSON document that is no object
RawOutputs ==
    {[raises |-> TRUE, text |-> None],
     [raises |-> FALSE,
      text |-> "Here you go: {\"response\": \"I hear you.\", \"mood\": \"amused\"} Take care."],
     [raises |-> FALSE, text |-> "{\"response\": \"Tell me more.\", \"mood\": \"happy\"}"],
     [raises |-> FALSE, text |-> "{\"response\": \"Go on.\"}"],
     [raises |-> FALSE, text |-> "{\"response\": \"\", \"mood\": \"concerned\"}"],
     [raises |-> FALSE, text |-> "{\"response\": \"   \", \"mood\": \"thinking\"}"],
     [raises |-> FALSE, text |-> "{\"mood\": \"thinking\"}"],
     [raises |-> FALSE, text |-> "Sure! {oops} bye"],
     [raises |-> FALSE, text |-> " This is not valid JSON at all! "],
     [raises |-> FALSE, text |-> ""],
     [raises |-> FALSE, text |-> "   "],
     [raises |-> FALSE, text |-> "42"]}

VARIABLES
    heap,             \* the PanelSession objects created so far, by object number
    _active_sessions, \* session_id -> object number (a dict: its domain is the keys)
    clock,            \* datetime.utcnow(), in seconds
    turns,            \* the runs of iter_panel_responses started so far, by turn number
    ret               \* the last operation, as its caller saw it end

vars == <<heap, _active_sessions, clock, turns, ret>>

(* ------------------------------------------------------------------ *)
(* Session store                                                       *)
(* ------------------------------------------------------------------ *)
Range(s) == {s[i] : i \in DOMAIN s}

\* datetime.isoformat() of a naive UTC time, as the string stored in a session
isoformat(t) == <<"iso", t>>

\* _parse_iso_datetime(value): the time, or NoDate for an empty or malformed string
_parse_iso_datetime(value) ==
    IF value = <<>> THEN NoDate
    ELSE IF Len(value) = 2 /\ value[1] = "iso" THEN value[2]
    ELSE NoDate

\* Not the code's: a session is expired as soon as its age reaches ttl_seconds
is_session_expired_at(session, now, ttl_seconds) ==
    LET lu == _parse_iso_datetime(session.last_updated)
        last == IF lu # NoDate THEN lu ELSE _parse_iso_datetime(session.created_at)
    IN  IF last = NoDate THEN FALSE
        ELSE (now - last) >= ttl_seconds

\* is_session_expired(session, now, ttl_seconds)
is_session_expired(session, now, ttl_seconds) ==
    LET lu == _parse_iso_datetime(session.last_updated)
        last == IF lu # NoDate THEN lu ELSE _parse_iso_datetime(session.created_at)
    IN  IF last = NoDate THEN FALSE
        ELSE (now - last) > ttl_seconds

\* PanelSession(...) as both creation functions build it
PanelSession(session_id, panel_config_id, persona_ids, has_moderator, now) ==
    [session_id |-> session_id,
     panel_config_id |-> panel_config_id,
     persona_ids |-> persona_ids,
     has_moderator |-> has_moderator,
     exchange_count |-> 0,
     discussion_history |-> <<>>,
     created_at |-> isoformat(now),
     last_updated |-> isoformat(now)]

\* str() of a list of strings
RECURSIVE list_items(_)
list_items(items) ==
    IF items = <<>> THEN ""
    ELSE IF Len(items) = 1 THEN "'" \o items[1] \o "'"
    ELSE "'" \o items[1] \o "', " \o list_items(Tail(items))
list_str(items) == "[" \o list_items(items) \o "]"

\* Not the code's: an error that names the first unknown id only
CustomPanelErrorFirst(persona_ids, personas_config) ==
    IF Len(persona_ids) < 2 \/ Len(persona_ids) > 4
    THEN "persona_ids must contain 2-4 personas"
    ELSE IF personas_config # NoMapping
            /\ \E i \in DOMAIN persona_ids : persona_ids[i] \notin personas_config
    THEN "Unknown persona IDs: "
            \o list_str(<<Head(SelectSeq(persona_ids,
                                         LAMBDA pid : pid \notin personas_config))>>)
    ELSE None

\* create_custom_panel_session: the error it raises, or None
CustomPanelError(persona_ids, personas_config) ==
    IF Len(persona_ids) < 2 \/ Len(persona_ids) > 4
    THEN "persona_ids must contain 2-4 personas"
    ELSE IF personas_config # NoMapping
            /\ \E i \in DOMAIN persona_ids : persona_ids[i] \notin personas_config
    THEN "Unknown persona IDs: "
            \o list_str(SelectSeq(persona_ids, LAMBDA pid : pid \notin personas_config))
    ELSE None

\* The keys cleanup_expired_sessions(now, ttl) pops
ExpiredKeys(store, h, now, ttl_seconds) ==
    {sid \in DOMAIN store : is_session_expired(h[store[sid]], now, ttl_seconds)}

\* The store after cleanup_expired_sessions(now, ttl)
SweptStore(store, h, now, ttl_seconds) ==
    [sid \in (DOMAIN store) \ ExpiredKeys(store, h, now, ttl_seconds) |-> store[sid]]

\* Not the code's: a store_session that leaves last_updated as it is
StoredHeapUntouched(h, o, now) == h

\* store_session(session): the heap and the store afterwards
StoredHeap(h, o, now) == [h EXCEPT ![o].last_updated = isoformat(now)]
StoredMap(store, h, o) ==
    [sid \in (DOMAIN store) \cup {h[o].session_id} |->
        IF sid = h[o].session_id THEN o ELSE store[sid]]

\* Not the code's: a pop that leaves the key in the store
PoppedKept(store, session_id) == store

\* _active_sessions.pop(session_id, None): the store afterwards
Popped(store, session_id) ==
    [sid \in (DOMAIN store) \ {session_id} |-> store[sid]]

(* ------------------------------------------------------------------ *)
(* Turn orchestrator                                                   *)
(* ------------------------------------------------------------------ *)
\* [pid for pid in session.persona_ids if pid not in skip_personas]
personas_to_ask(persona_ids, skip_personas) ==
    SelectSeq(persona_ids, LAMBDA pid : pid \notin skip_personas)

\* Not the code's: a loop that ends at a persona without a configuration
DropUnconfiguredBreak(todo) ==
    IF todo = <<>> THEN <<>>
    ELSE IF Head(todo) \in PERSONAS THEN todo
    ELSE <<>>

\* The loop's "continue" for a persona without a configuration: the rest of the
\* list from the first persona that has one
RECURSIVE DropUnconfigured(_)
DropUnconfigured(todo) ==
    IF todo = <<>> THEN <<>>
    ELSE IF Head(todo) \in PERSONAS THEN todo
    ELSE DropUnconfigured(Tail(todo))

\* The characters str.strip() removes, of those the messages followed here hold
Whitespace == {" ", "\t", "\n", "\r"}

\* Not the code's: only the message without characters counts as empty
IsBlankEmptyOnly(user_message) == user_message = ""

\* "not user_message or not user_message.strip()": the message has no character
\* that strip() would leave
IsBlank(user_message) ==
    \A i \in 1..Len(user_message) : SubSeq(user_message, i, i) \in Whitespace

ErrorText == "[Error: I'm experiencing technical difficulties.]"

\* The responses of a sequence of exchanges, one exchange after the other
RECURSIVE all_responses(_)
all_responses(exchanges) ==
    IF exchanges = <<>> THEN <<>>
    ELSE Head(exchanges).responses \o all_responses(Tail(exchanges))

\* Not the code's: the responses of the whole history
_get_all_responses(session) == all_responses(session.discussion_history)

\* _get_recent_responses(session): the responses of
\* discussion_history[-MAX_PREVIOUS_EXCHANGES:]
_get_recent_responses(session) ==
    LET history == session.discussion_history
        n == Len(history)
    IN  IF n = 0 THEN <<>>
        ELSE IF n <= MAX_PREVIOUS_EXCHANGES THEN all_responses(history)
        ELSE all_responses(SubSeq(history, n - MAX_PREVIOUS_EXCHANGES + 1, n))

\* What build_discussion_context raises for an empty or whitespace-only message
ValueError == [raised |-> "User message cannot be empty"]

\* build_discussion_context(session, persona_id, persona_config, user_message): the
\* parts the context string is joined from.  previous is the list under "PREVIOUS
\* PANELIST RESPONSES"; when it is empty the string says "PREVIOUS RESPONSES: None"
\* instead.
build_discussion_context(session, persona_id, user_message) ==
    IF IsBlank(user_message) THEN ValueError
    ELSE LET previous_responses == _get_recent_responses(session)
         IN  [system_prompt |-> persona_id,
              personas |-> Len(session.persona_ids),
              user_message |-> user_message,
              previous |-> [i \in DOMAIN previous_responses |->
                              [persona_name |-> previous_responses[i].persona_name,
                               said |-> previous_responses[i].response]]]

\* Not the code's: a build that trims the history to the exchanges it lists
TrimmedByContext(session) ==
    LET history == session.discussion_history
        n == Len(history)
    IN  [session EXCEPT !.discussion_history =
            IF n <= MAX_PREVIOUS_EXCHANGES THEN history
            ELSE SubSeq(history, n - MAX_PREVIOUS_EXCHANGES + 1, n)]

\* The session after build_discussion_context has run on it: the function reads
\* session.persona_ids and session.discussion_history and assigns to nothing of it
LeftByContext(session) == session

\* str.lower() on one character
LowerChar(c) ==
    CASE c = "A" -> "a" [] c = "B" -> "b" [] c = "C" -> "c" [] c = "D" -> "d"
      [] c = "E" -> "e" [] c = "F" -> "f" [] c = "G" -> "g" [] c = "H" -> "h"
      [] c = "I" -> "i" [] c = "J" -> "j" [] c = "K" -> "k" [] c = "L" -> "l"
      [] c = "M" -> "m" [] c = "N" -> "n" [] c = "O" -> "o" [] c = "P" -> "p"
      [] c = "Q" -> "q" [] c = "R" -> "r" [] c = "S" -> "s" [] c = "T" -> "t"
      [] c = "U" -> "u" [] c = "V" -> "v" [] c = "W" -> "w" [] c = "X" -> "x"
      [] c = "Y" -> "y" [] c = "Z" -> "z" [] OTHER -> c

\* str.lower(), by halves
RECURSIVE lower(_)
lower(s) ==
    IF Len(s) = 0 THEN ""
    ELSE IF Len(s) = 1 THEN LowerChar(s)
    ELSE lower(SubSeq(s, 1, Len(s) \div 2)) \o lower(SubSeq(s, Len(s) \div 2 + 1, Len(s)))

\* "needle in s" between strings
In(needle, s) ==
    \E i \in 0..(Len(s) - Len(needle)) : SubSeq(s, i + 1, i + Len(needle)) = needle

\* s without its leading spaces
RECURSIVE lstrip(_)
lstrip(s) ==
    IF Len(s) > 0 /\ SubSeq(s, 1, 1) = " " THEN lstrip(SubSeq(s, 2, Len(s))) ELSE s

\* re.sub(r',\s*(PhD|MD|PsyD|LCSW).*$', '', persona_name): the name up to the first
\* comma that a title follows
name_clean(name) ==
    LET suffix_at == {i \in 1..Len(name) :
                        /\ SubSeq(name, i, i) = ","
                        /\ \E title \in {"PhD", "MD", "PsyD", "LCSW"} :
                              LET rest == lstrip(SubSeq(name, i + 1, Len(name)))
                              IN  /\ Len(rest) >= Len(title)
                                  /\ SubSeq(rest, 1, Len(title)) = title}
    IN  IF suffix_at = {} THEN name
        ELSE SubSeq(name, 1, (CHOOSE i \in suffix_at : \A j \in suffix_at : i <= j) - 1)

\* str.split(): the words of s
RECURSIVE split(_)
split(s) ==
    LET t == lstrip(s)
        spaces == {i \in 1..Len(t) : SubSeq(t, i, i) = " "}
        end == IF spaces = {} THEN Len(t) + 1
               ELSE CHOOSE i \in spaces : \A j \in spaces : i <= j
    IN  IF Len(t) = 0 THEN <<>>
        ELSE <<SubSeq(t, 1, end - 1)>> \o split(SubSeq(t, end, Len(t)))

\* Not the code's: the last word is looked for whatever its length
name_needles_any_last(persona_id) ==
    LET cleaned == name_clean(persona_name(persona_id))
        name_parts == split(cleaned)
        last_name == name_parts[Len(name_parts)]
    IN  {lower(cleaned)}
           \cup (IF Len(name_parts) >= 2
                 THEN {lower(name_parts[1] \o " " \o name_parts[2]), lower(last_name)}
                 ELSE {})

\* Lines 752-776: the strings looked for in the lowered text for a persona: its
\* name without the suffix, the first two words of that, and its last word when
\* that has more than 3 characters (the last two only for names of two words or
\* more)
name_needles(persona_id) ==
    LET cleaned == name_clean(persona_name(persona_id))
        name_parts == split(cleaned)
        last_name == name_parts[Len(name_parts)]
    IN  {lower(cleaned)}
           \cup (IF Len(name_parts) >= 2
                 THEN {lower(name_parts[1] \o " " \o name_parts[2])}
                         \cup (IF Len(last_name) > 3 THEN {lower(last_name)} ELSE {})
                 ELSE {})

\* The strings looked for, for each persona of the configuration
Needles == [persona_id \in Range(PersonaOrder) |-> name_needles(persona_id)]

\* Lines 747-776: whether the name of persona_id is found in the lowered text
IsReferenced(persona_id, response_lower) ==
    /\ persona_name(persona_id) # ""
    /\ \E needle \in Needles[persona_id] : In(needle, response_lower)

\* detect_persona_references(response_text, personas_config): the ids of the personas
\* of the configuration whose name is found in the text, in the order of the
\* configuration
detect_persona_references(response_text, personas_config) ==
    LET response_lower == lower(response_text)
    IN  SelectSeq(SelectSeq(PersonaOrder, LAMBDA pid : pid \in personas_config),
                  LAMBDA pid : IsReferenced(pid, response_lower))

\* s without its trailing spaces
RECURSIVE rstrip(_)
rstrip(s) ==
    IF Len(s) > 0 /\ SubSeq(s, Len(s), Len(s)) = " "
    THEN rstrip(SubSeq(s, 1, Len(s) - 1)) ELSE s

\* str.strip()
strip(s) == rstrip(lstrip(s))

\* The least and the greatest of a non-empty set of numbers
Least(S) == CHOOSE i \in S : \A j \in S : i <= j
Greatest(S) == CHOOSE i \in S : \A j \in S : i >= j

\* Lines 599-602 and 978-980: the text json.loads is given, which is what
\* re.search(r'\{.*\}', response_text, re.DOTALL) matches, from the first "{" to
\* the last "}", or the whole text when nothing matches
json_text(response_text) ==
    LET opening == {i \in 1..Len(response_text) : SubSeq(response_text, i, i) = "{"}
        closing == {i \in 1..Len(response_text) : SubSeq(response_text, i, i) = "}"}
    IN  IF opening # {} /\ closing # {} /\ Greatest(closing) > Least(opening)
        THEN SubSeq(response_text, Least(opening), Greatest(closing))
        ELSE response_text

\* What json.loads raises
JSONDecodeError == [raised |-> "JSONDecodeError"]

\* The JSON documents among the texts the service is followed for, with the object
\* json.loads returns for each
JsonDocuments ==
    ("{\"summary\": \"Dr. Ada Sterling was heard.\", \"key_insights\": [\"Rest\"]}"
        :> [summary |-> "Dr. Ada Sterling was heard.", key_insights |-> <<"Rest">>])
    @@ ("{\"response\": \"I hear you.\", \"mood\": \"amused\"}"
        :> [response |-> "I hear you.", mood |-> "amused"])
    @@ ("{\"response\": \"Tell me more.\", \"mood\": \"happy\"}"
        :> [response |-> "Tell me more.", mood |-> "happy"])
    @@ ("{\"response\": \"Go on.\"}" :> [response |-> "Go on."])
    @@ ("{\"response\": \"\", \"mood\": \"concerned\"}"
        :> [response |-> "", mood |-> "concerned"])
    @@ ("{\"response\": \"   \", \"mood\": \"thinking\"}"
        :> [response |-> "   ", mood |-> "thinking"])
    @@ ("{\"mood\": \"thinking\"}" :> [mood |-> "thinking"])
    @@ ("42" :> [number |-> 42])

\* json.loads(text), for the texts the service is followed for
json_loads(text) ==
    IF text \in DOMAIN JsonDocuments THEN JsonDocuments[text] ELSE JSONDecodeError

\* dict.get(key, default)
get(data, key, default) == IF key \in DOMAIN data THEN data[key] ELSE default

\* What the moderator operations return when anything fails
FallbackIntro ==
    [persona_id |-> "moderator-dr-panel", persona_name |-> "Dr. Panel",
     response |-> "Welcome! Today's panel is ready to discuss your concerns.",
     mood |-> "neutral", references |-> <<>>]
FallbackSummary ==
    [persona_id |-> "moderator-dr-panel", persona_name |-> "Dr. Panel",
     response |-> "The panel has provided diverse perspectives on your situation. Key themes include understanding your feelings and finding practical solutions.",
     mood |-> "neutral", references |-> <<>>]

\* What generate_panel_summary raises for a session without history
NoHistoryError ==
    [raised |-> "No discussion history to summarize. Cannot generate summary for empty session."]

\* generate_moderator_intro(session), with the moderator loaded and what the service
\* does.  Without a moderator, for a session without personas (persona_names[-1])
\* and when the service raises, the except clause returns the fallback.  The texts
\* the service is followed for hold no fenced part, which line 875 would take out.
generate_moderator_intro(session, moderator, reply) ==
    IF ~moderator.loaded \/ session.persona_ids = <<>> \/ reply.raises
    THEN FallbackIntro
    ELSE [persona_id |-> "moderator-dr-panel", persona_name |-> moderator.name,
          response |-> strip(reply.text),
          mood |-> "neutral", references |-> <<>>]

\* Lines 986-990: the summary with its key insights, numbered from i
RECURSIVE with_insights(_, _, _)
with_insights(summary_text, key_insights, i) ==
    IF key_insights = <<>> THEN summary_text
    ELSE with_insights(summary_text \o ToString(i) \o ". " \o Head(key_insights) \o "\n",
                       Tail(key_insights), i + 1)

\* Lines 1004-1010: the ids of the personas that have answered in the session, in
\* the order of their first answer
RECURSIVE personas_mentioned(_)
personas_mentioned(responses) ==
    IF responses = <<>> THEN <<>>
    ELSE LET before == personas_mentioned(SubSeq(responses, 1, Len(responses) - 1))
             persona_id == responses[Len(responses)].persona_id
         IN  IF persona_id \in Range(before) THEN before ELSE Append(before, persona_id)

\* Lines 975-1016: the summary made of what the service returned
summary_of(session, moderator, text) ==
    LET response_text == json_text(strip(text))
        summary_data == json_loads(response_text)
        key_insights == get(summary_data, "key_insights", <<>>)
        summary_text ==
           IF summary_data = JSONDecodeError THEN response_text
           ELSE IF key_insights = <<>> THEN get(summary_data, "summary", response_text)
           ELSE with_insights(get(summary_data, "summary", response_text)
                                 \o "\n\nKey Insights:\n", key_insights, 1)
        mentioned == personas_mentioned(all_responses(session.discussion_history))
        summary_lower == lower(summary_text)
    IN  [persona_id |-> "moderator-dr-panel", persona_name |-> moderator.name,
         response |-> summary_text, mood |-> "neutral",
         references |-> SelectSeq(mentioned,
                                  LAMBDA pid : IsReferenced(pid, summary_lower))]

\* Not the code's: a summary that lets the failure of the service out
generate_panel_summary_unguarded(session, moderator, reply) ==
    IF session.discussion_history = <<>> THEN NoHistoryError
    ELSE IF ~moderator.loaded THEN FallbackSummary
    ELSE IF reply.raises THEN [raised |-> "service"]
    ELSE summary_of(session, moderator, reply.text)

\* Not the code's: a summary that falls back for a session without history
generate_panel_summary_lenient(session, moderator, reply) ==
    IF session.discussion_history = <<>> \/ ~moderator.loaded \/ reply.raises
    THEN FallbackSummary
    ELSE summary_of(session, moderator, reply.text)

\* generate_panel_summary(session), with the moderator loaded and what the service
\* does: the ValueError for an empty history is raised before the try; in the try,
\* every exception ends in the fallback
generate_panel_summary(session, moderator, reply) ==
    IF session.discussion_history = <<>> THEN NoHistoryError
    ELSE IF ~moderator.loaded \/ reply.raises THEN FallbackSummary
    ELSE summary_of(session, moderator, reply.text)

\* Whether generate_panel_summary reaches its call of the service (line 968)
summary_asks_service(session, moderator) ==
    session.discussion_history # <<>> /\ moderator.loaded

\* Not the code's: a summary that is due only after the threshold is passed
should_generate_summary_after(session, threshold) == session.exchange_count > threshold

\* should_generate_summary(session, threshold)
should_generate_summary(session, threshold) == session.exchange_count >= threshold

\* Lines 590-613 of generate_persona_response: what the call of the service and the
\* decoding of its output give: an exception (of the service, or the AttributeError
\* of .get on a JSON value that is no object), or the response and the mood taken
\* from the decoded object, or, when the text does not decode, the text json.loads
\* was given and the default mood
decoded_reply(output) ==
    IF output.raises THEN [raises |-> TRUE, mood |-> None, response |-> None]
    ELSE LET response_text == json_text(strip(output.text))
             response_data == json_loads(response_text)
         IN  IF response_data = JSONDecodeError
             THEN [raises |-> FALSE, mood |-> DEFAULT_MOOD, response |-> response_text]
             ELSE IF "number" \in DOMAIN response_data
             THEN [raises |-> TRUE, mood |-> None, response |-> None]
             ELSE [raises |-> FALSE,
                   mood |-> get(response_data, "mood", DEFAULT_MOOD),
                   response |-> get(response_data, "response", response_text)]

\* Not the code's: a response that keeps the mood of the service as it is
generate_persona_response_any_mood(persona_id, user_message, reply) ==
    IF IsBlank(user_message) \/ reply.raises
    THEN [persona_id |-> persona_id, persona_name |-> persona_name(persona_id),
          response |-> ErrorText, mood |-> "shocked", references |-> <<>>]
    ELSE [persona_id |-> persona_id, persona_name |-> persona_name(persona_id),
          response |-> IF IsBlank(reply.response)
                       THEN "I need a moment to process this... "
                               \o persona_name(persona_id)
                       ELSE reply.response,
          mood |-> reply.mood,
          references |-> <<>>]

\* Not the code's: a response that keeps the text of the service as it is
generate_persona_response_as_given(persona_id, user_message, reply) ==
    IF IsBlank(user_message) \/ reply.raises
    THEN [persona_id |-> persona_id, persona_name |-> persona_name(persona_id),
          response |-> ErrorText, mood |-> "shocked", references |-> <<>>]
    ELSE [persona_id |-> persona_id, persona_name |-> persona_name(persona_id),
          response |-> reply.response,
          mood |-> IF reply.mood \in VALID_MOODS THEN reply.mood ELSE DEFAULT_MOOD,
          references |-> <<>>]

\* Not the code's: an error response that keeps the default mood
generate_persona_response_calm(persona_id, user_message, reply) ==
    IF IsBlank(user_message) \/ reply.raises
    THEN [persona_id |-> persona_id, persona_name |-> persona_name(persona_id),
          response |-> ErrorText, mood |-> DEFAULT_MOOD, references |-> <<>>]
    ELSE [persona_id |-> persona_id, persona_name |-> persona_name(persona_id),
          response |-> IF IsBlank(reply.response)
                       THEN "I need a moment to process this... "
                               \o persona_name(persona_id)
                       ELSE reply.response,
          mood |-> IF reply.mood \in VALID_MOODS THEN reply.mood ELSE DEFAULT_MOOD,
          references |-> <<>>]

\* generate_persona_response: the PanelResponse for one persona.  Every exception
\* (the empty-message ValueError of build_discussion_context, a failure of the
\* service) is caught and turned into the error response; an empty or
\* whitespace-only text of the service is replaced by a placeholder that ends with
\* the persona's name.
generate_persona_response(persona_id, user_message, reply) ==
    IF IsBlank(user_message) \/ reply.raises
    THEN [persona_id |-> persona_id, persona_name |-> persona_name(persona_id),
          response |-> ErrorText, mood |-> "shocked", references |-> <<>>]
    ELSE [persona_id |-> persona_id, persona_name |-> persona_name(persona_id),
          response |-> IF IsBlank(reply.response)
                       THEN "I need a moment to process this... "
                               \o persona_name(persona_id)
                       ELSE reply.response,
          mood |-> IF reply.mood \in VALID_MOODS THEN reply.mood ELSE DEFAULT_MOOD,
          references |-> <<>>]

\* Lines 717-721: the history after a response is added for user_message
AppendResponse(history, user_message, response) ==
    LET h == IF history = <<>> \/ history[Len(history)].user_message # user_message
             THEN Append(history, [user_message |-> user_message, responses |-> <<>>])
             ELSE history
    IN  [h EXCEPT ![Len(h)].responses = Append(@, response)]

\* Not the code's: a post-loop step that counts the exchanges of the history
FinishTurnByHistory(session, now) ==
    [session EXCEPT !.exchange_count = Len(session.discussion_history),
                    !.last_updated = isoformat(now)]

\* Lines 725-727: the session after the loop has ended
FinishTurn(session, now) ==
    [session EXCEPT !.exchange_count = @ + 1, !.last_updated = isoformat(now)]

\* Where the answer to a request stands as a stream of server-sent events: whether
\* it is followed as one (on), whether generate() holds an intro of the moderator,
\* the place generate() is suspended at or about to start from, and the events sent
\* so far.  A turn that is not followed as a stream is in its loop.
NoStream == [on |-> FALSE, moderator_intro |-> FALSE, at |-> "loop", events |-> <<>>]

\* Not the code's: a stream that never sends the intro of the moderator
AfterSessionNoIntro(moderator_intro) == "loop"

\* Lines 619-620 of psychiatrist_api.py: what follows the session event
AfterSession(moderator_intro) == IF moderator_intro THEN "intro" ELSE "loop"

\* The panel_state event of a session
panel_state(session) ==
    [event |-> "panel_state", exchange_count |-> session.exchange_count]

\* A new run of iter_panel_responses on object o.  Whether the caller streams is
\* not kept: an eager caller (generate_panel_responses) is a consumer that never
\* closes the generator.
NewTurn(o, persona_ids, user_message, skip_personas) ==
    [pc |-> "running", obj |-> o, user_message |-> user_message,
     skip_personas |-> skip_personas,
     todo |-> personas_to_ask(persona_ids, skip_personas),
     out |-> <<>>, calls |-> 0, sse |-> NoStream]

\* A generator that has returned or was closed: its frame (the locals of the run) is
\* gone, what is left of the turn is how it ended and the session it ran on
Finished(pc, o, calls) ==
    [pc |-> pc, obj |-> o, user_message |-> "", skip_personas |-> {},
     todo |-> <<>>, out |-> <<>>, calls |-> calls, sse |-> NoStream]

\* ret after an operation whose result is not kept
NoRet == [op |-> "none"]

Init ==
    /\ heap = <<>>
    /\ _active_sessions = <<>>
    /\ clock = 0
    /\ turns = <<>>
    /\ ret = NoRet

\* time passes
Tick ==
    /\ clock < MaxTicks * TickSeconds
    /\ clock' = clock + TickSeconds
    /\ ret' = NoRet
    /\ UNCHANGED <<heap, _active_sessions, turns>>

\* The generator is resumed and reaches its next yield: the next persona that has a
\* configuration is asked, its response is added to the history and yielded.
TurnYield(t, reply) ==
    LET turn == turns[t]
        todo == DropUnconfigured(turn.todo)
    IN  /\ turn.pc = "running"
        /\ turn.sse.at = "loop"
        /\ todo # <<>>
        /\ LET generated == generate_persona_response(Head(todo), turn.user_message, reply)
               response == [generated EXCEPT !.references =
                               detect_persona_references(generated.response, PERSONAS)]
           IN  /\ heap' = [heap EXCEPT ![turn.obj].discussion_history =
                              AppendResponse(@, turn.user_message, response)]
               /\ turns' = [turns EXCEPT ![t].todo = Tail(todo),
                                         ![t].out = Append(@, response),
                                         ![t].calls = IF IsBlank(turn.user_message)
                                                      THEN @ ELSE @ + 1,
                                         ![t].sse.events =
                                            IF turn.sse.on
                                            THEN Append(@, [event |-> "panel_response",
                                                            persona_id |-> response.persona_id])
                                            ELSE @]
        /\ ret' = [op |-> "yield", turn |-> t, raised |-> reply.raises,
                   context |-> build_discussion_context(heap[turn.obj], Head(todo),
                                                        turn.user_message)]
        /\ UNCHANGED <<_active_sessions, clock>>

\* The same step, by the output of the service the persona is asked with
TurnYieldRaw(t, output) == TurnYield(t, decoded_reply(output))

\* The generator is resumed and returns: no persona with a configuration is left.
\* In a stream the loop of generate() ends with it and the panel_state event is sent.
TurnReturn(t) ==
    LET turn == turns[t]
    IN  /\ turn.pc = "running"
        /\ turn.sse.at = "loop"
        /\ DropUnconfigured(turn.todo) = <<>>
        /\ heap' = [heap EXCEPT ![turn.obj] = FinishTurn(@, clock)]
        /\ turns' = IF turn.sse.on
                    THEN [turns EXCEPT ![t].pc = "complete",
                                       ![t].todo = <<>>,
                                       ![t].sse.at = "done",
                                       ![t].sse.events =
                                          Append(@, panel_state(FinishTurn(heap[turn.obj],
                                                                           clock)))]
                    ELSE [turns EXCEPT ![t] = Finished("complete", turn.obj, turn.calls)]
        /\ ret' = NoRet
        /\ UNCHANGED <<_active_sessions, clock>>

\* Not the code's: a generator whose post-loop code also runs when it is closed
TurnCloseFinally(t) ==
    /\ turns[t].pc = "running"
    /\ heap' = [heap EXCEPT ![turns[t].obj] = FinishTurn(@, clock)]
    /\ turns' = [turns EXCEPT ![t] = Finished("closed", turns[t].obj, turns[t].calls)]
    /\ ret' = [op |-> "close", turn |-> t, unasked |-> DropUnconfigured(turns[t].todo)]
    /\ UNCHANGED <<_active_sessions, clock>>

\* The consumer of a streamed turn goes away: the generator is closed where it is
\* suspended, and the code after its loop never runs.
TurnClose(t) ==
    /\ turns[t].pc = "running"
    /\ turns' = [turns EXCEPT ![t] = Finished("closed", turns[t].obj, turns[t].calls)]
    /\ ret' = [op |-> "close", turn |-> t, unasked |-> DropUnconfigured(turns[t].todo)]
    /\ UNCHANGED <<heap, _active_sessions, clock>>

\* iter_panel_responses(session, personas_config, user_message, skip_personas) called
\* on session object o: the generator is created, nothing of its body has run
iter_panel_responses(o, user_message, skip_personas) ==
    /\ Len(turns) < MaxCalls
    /\ turns' = Append(turns, NewTurn(o, heap[o].persona_ids, user_message, skip_personas))
    /\ ret' = NoRet
    /\ UNCHANGED <<heap, _active_sessions, clock>>

\* build_discussion_context called by a caller of the module on session object o,
\* for one of its personas
BuildContext(o, persona_id, user_message) ==
    /\ ret' = [op |-> "build_discussion_context", obj |-> o, persona_id |-> persona_id,
               user_message |-> user_message,
               val |-> build_discussion_context(heap[o], persona_id, user_message)]
    /\ heap' = [heap EXCEPT ![o] = LeftByContext(@)]
    /\ UNCHANGED <<_active_sessions, clock, turns>>

\* detect_persona_references called by a caller of the module
DetectPersonaReferences(response_text, personas_config) ==
    /\ ret' = [op |-> "detect_persona_references", response_text |-> response_text,
               personas_config |-> personas_config,
               val |-> detect_persona_references(response_text, personas_config)]
    /\ UNCHANGED <<heap, _active_sessions, clock, turns>>

\* generate_moderator_intro called by a caller of the module on session object o
GenerateModeratorIntro(o, moderator, reply) ==
    /\ ret' = [op |-> "generate_moderator_intro", obj |-> o,
               asked |-> moderator.loaded /\ heap[o].persona_ids # <<>>,
               raised |-> reply.raises,
               val |-> generate_moderator_intro(heap[o], moderator, reply)]
    /\ UNCHANGED <<heap, _active_sessions, clock, turns>>

\* generate_panel_summary called by a caller of the module on session object o
GeneratePanelSummary(o, moderator, reply) ==
    /\ ret' = [op |-> "generate_panel_summary", obj |-> o,
               asked |-> summary_asks_service(heap[o], moderator),
               raised |-> reply.raises,
               val |-> generate_panel_summary(heap[o], moderator, reply)]
    /\ UNCHANGED <<heap, _active_sessions, clock, turns>>

\* should_generate_summary called by a caller of the module on session object o,
\* with or without a threshold
ShouldGenerateSummary(o, args) ==
    LET threshold == IF args = <<>> THEN DEFAULT_SUMMARY_THRESHOLD ELSE args[1]
    IN  /\ ret' = [op |-> "should_generate_summary", obj |-> o, args |-> args,
                   val |-> should_generate_summary(heap[o], threshold)]
        /\ UNCHANGED <<heap, _active_sessions, clock, turns>>

(* ------------------------------------------------------------------ *)
(* Request handlers                                                    *)
(* ------------------------------------------------------------------ *)
\* The error that makes POST /api/panel/start answer 400, or None
StartError(panel, message) ==
    IF IsBlank(message) THEN "No message provided"
    ELSE IF Len(panel.persona_ids) > 0 THEN CustomPanelError(panel.persona_ids, PERSONAS)
    ELSE IF panel.panel_config \notin DOMAIN _panel_configs THEN "Panel config not found"
    ELSE None

\* POST /api/panel/start, answered 400: only the sweep of expired sessions is done
panel_start_rejected(panel, message) ==
    /\ StartError(panel, message) # None
    /\ _active_sessions' =
          SweptStore(_active_sessions, heap, clock, SESSION_TTL_SECONDS)
    /\ ret' = NoRet
    /\ UNCHANGED <<heap, clock, turns>>

\* POST /api/panel/start: the session is created and stored and its first turn starts
panel_start(panel, message, skip_personas, sid) ==
    LET swept == SweptStore(_active_sessions, heap, clock, SESSION_TTL_SECONDS)
        o == Len(heap) + 1
        session == IF Len(panel.persona_ids) > 0
                   THEN PanelSession(sid, "custom", panel.persona_ids, TRUE, clock)
                   ELSE PanelSession(sid, panel.panel_config,
                                     _panel_configs[panel.panel_config], TRUE, clock)
        h1 == Append(heap, session)
    IN  /\ StartError(panel, message) = None
        /\ Len(turns) < MaxTurns
        /\ heap' = StoredHeap(h1, o, clock)
        /\ _active_sessions' = StoredMap(swept, h1, o)
        /\ turns' = Append(turns, NewTurn(o, session.persona_ids, message, skip_personas))
        /\ ret' = NoRet
        /\ UNCHANGED clock

\* POST /api/panel/start with stream: the session is created and stored and the
\* answer is the generator generate(), of which nothing has run
panel_start_stream(panel, include_moderator, message, skip_personas, sid) ==
    LET swept == SweptStore(_active_sessions, heap, clock, SESSION_TTL_SECONDS)
        o == Len(heap) + 1
        session == IF Len(panel.persona_ids) > 0
                   THEN PanelSession(sid, "custom", panel.persona_ids,
                                     include_moderator, clock)
                   ELSE PanelSession(sid, panel.panel_config,
                                     _panel_configs[panel.panel_config],
                                     include_moderator, clock)
        h1 == Append(heap, session)
    IN  /\ StartError(panel, message) = None
        /\ Len(turns) < MaxTurns
        /\ heap' = StoredHeap(h1, o, clock)
        /\ _active_sessions' = StoredMap(swept, h1, o)
        /\ turns' = Append(turns,
                           [NewTurn(o, session.persona_ids, message, skip_personas)
                               EXCEPT !.sse = [on |-> TRUE,
                                               moderator_intro |-> include_moderator,
                                               at |-> "session", events |-> <<>>]])
        /\ ret' = NoRet
        /\ UNCHANGED clock

\* generate() is started: the session event is sent
StreamSession(t) ==
    LET turn == turns[t]
    IN  /\ turn.sse.on
        /\ turn.sse.at = "session"
        /\ turns' = [turns EXCEPT
                        ![t].sse.at = AfterSession(turn.sse.moderator_intro),
                        ![t].sse.events =
                           Append(@, [event |-> "session",
                                      exchange_count |-> heap[turn.obj].exchange_count])]
        /\ ret' = NoRet
        /\ UNCHANGED <<heap, _active_sessions, clock>>

\* generate() is resumed and sends the intro of the moderator
StreamIntro(t) ==
    /\ turns[t].sse.on
    /\ turns[t].sse.at = "intro"
    /\ turns' = [turns EXCEPT ![t].sse.at = "loop",
                              ![t].sse.events = Append(@, [event |-> "moderator_intro"])]
    /\ ret' = NoRet
    /\ UNCHANGED <<heap, _active_sessions, clock>>

\* generate() is resumed after the panel_state event: the done event is sent, and
\* generate() returns when it is resumed again
StreamDone(t) ==
    /\ turns[t].sse.on
    /\ turns[t].sse.at = "done"
    /\ turns' = [turns EXCEPT ![t].sse.at = "end",
                              ![t].sse.events = Append(@, [event |-> "done"])]
    /\ ret' = NoRet
    /\ UNCHANGED <<heap, _active_sessions, clock>>

\* generate() is resumed in its loop and an exception comes out of
\* iter_panel_responses (one raised in the except clause of
\* generate_persona_response, as get_ascii_art_for_persona does for a persona whose
\* asciiArt is not a mapping): the generator of the turn is finished without its
\* post-loop code, the error event is sent and generate() returns.
StreamError(t) ==
    LET turn == turns[t]
    IN  /\ turn.sse.on
        /\ turn.sse.at = "loop"
        /\ turn.pc = "running"
        /\ DropUnconfigured(turn.todo) # <<>>
        /\ turns' = [turns EXCEPT ![t].pc = "closed",
                                  ![t].todo = <<>>,
                                  ![t].sse.at = "end",
                                  ![t].sse.events = Append(@, [event |-> "error"])]
        /\ ret' = NoRet
        /\ UNCHANGED <<heap, _active_sessions, clock>>

\* POST /api/panel/continue, answered 400 (no message) or 404 (no such session)
panel_continue_rejected(session_id, message) ==
    LET swept == SweptStore(_active_sessions, heap, clock, SESSION_TTL_SECONDS)
    IN  /\ IsBlank(message) \/ session_id \notin DOMAIN swept
        /\ _active_sessions' = swept
        /\ ret' = NoRet
        /\ UNCHANGED <<heap, clock, turns>>

\* POST /api/panel/continue: a turn starts on the session get_session returns
panel_continue(session_id, message, skip_personas) ==
    LET swept == SweptStore(_active_sessions, heap, clock, SESSION_TTL_SECONDS)
    IN  /\ ~IsBlank(message)
        /\ session_id \in DOMAIN swept
        /\ Len(turns) < MaxTurns
        /\ _active_sessions' = swept
        /\ turns' = Append(turns, NewTurn(swept[session_id],
                                          heap[swept[session_id]].persona_ids,
                                          message, skip_personas))
        /\ ret' = NoRet
        /\ UNCHANGED <<heap, clock>>

\* POST /api/panel/summarize: 404 for a session that is not found, 400 for one
\* without history (the ValueError of generate_panel_summary), else the summary
panel_summarize(session_id) ==
    LET swept == SweptStore(_active_sessions, heap, clock, SESSION_TTL_SECONDS)
    IN  /\ _active_sessions' = swept
        /\ ret' = [op |-> "panel_summarize",
                   status |-> IF session_id \notin DOMAIN swept THEN 404
                              ELSE IF heap[swept[session_id]].discussion_history = <<>>
                              THEN 400 ELSE 200]
        /\ UNCHANGED <<heap, clock, turns>>

\* POST /api/panel/end: 404 for a session that is not found, else the session is
\* deleted from the store
panel_end(session_id) ==
    LET swept == SweptStore(_active_sessions, heap, clock, SESSION_TTL_SECONDS)
    IN  /\ _active_sessions' = IF session_id \in DOMAIN swept
                               THEN Popped(swept, session_id) ELSE swept
        /\ ret' = [op |-> "panel_end",
                   status |-> IF session_id \in DOMAIN swept THEN 200 ELSE 404]
        /\ UNCHANGED <<heap, clock, turns>>

(* ------------------------------------------------------------------ *)
(* Calls of the store operations by a caller of the module             *)
(* ------------------------------------------------------------------ *)
\* create_panel_session / create_custom_panel_session: a new session, not yet stored
create_session(panel, sid) ==
    LET session == IF Len(panel.persona_ids) > 0
                   THEN PanelSession(sid, "custom", panel.persona_ids, TRUE, clock)
                   ELSE PanelSession(sid, panel.panel_config,
                                     _panel_configs[panel.panel_config], TRUE, clock)
    IN  /\ StartError(panel, "Start") = None
        /\ Len(heap) < MaxSessions
        /\ heap' = Append(heap, session)
        /\ ret' = [op |-> "create", val |-> Len(heap) + 1]
        /\ UNCHANGED <<_active_sessions, clock, turns>>

\* create_panel_session(panel_config_id, include_moderator): the session of a
\* template, or the ValueError for a template that is not configured
create_panel_session(panel_config_id, include_moderator, sid) ==
    IF panel_config_id \notin DOMAIN _panel_configs
    THEN /\ ret' = [op |-> "create_panel_session", val |-> NoSession,
                    error |-> "Panel config not found"]
         /\ UNCHANGED <<heap, _active_sessions, clock, turns>>
    ELSE /\ Len(heap) < MaxSessions
         /\ heap' = Append(heap, PanelSession(sid, panel_config_id,
                                              _panel_configs[panel_config_id],
                                              include_moderator, clock))
         /\ ret' = [op |-> "create_panel_session", val |-> Len(heap) + 1, error |-> None]
         /\ UNCHANGED <<_active_sessions, clock, turns>>

\* create_custom_panel_session(persona_ids, include_moderator, personas_config): the
\* session of an explicit list, or the ValueError of its validation
create_custom_panel_session(persona_ids, include_moderator, personas_config, sid) ==
    LET error == CustomPanelError(persona_ids, personas_config)
    IN  IF error # None
        THEN /\ ret' = [op |-> "create_custom_panel_session", val |-> NoSession,
                        error |-> error]
             /\ UNCHANGED <<heap, _active_sessions, clock, turns>>
        ELSE /\ Len(heap) < MaxSessions
             /\ heap' = Append(heap, PanelSession(sid, "custom", persona_ids,
                                                  include_moderator, clock))
             /\ ret' = [op |-> "create_custom_panel_session", val |-> Len(heap) + 1,
                        error |-> None]
             /\ UNCHANGED <<_active_sessions, clock, turns>>

\* store_session(session)
store_session(o) ==
    /\ heap' = StoredHeap(heap, o, clock)
    /\ _active_sessions' = StoredMap(_active_sessions, heap, o)
    /\ ret' = [op |-> "store_session", session |-> o,
               before |-> heap[o].last_updated,
               replaced |-> IF heap[o].session_id \in DOMAIN _active_sessions
                            THEN _active_sessions[heap[o].session_id] ELSE NoSession]
    /\ UNCHANGED <<clock, turns>>

\* What get_session(session_id, now, ttl_seconds) returns
GetSessionResult(store, h, session_id, now, ttl_seconds) ==
    IF session_id \notin DOMAIN store THEN NoSession
    ELSE IF is_session_expired(h[store[session_id]], now, ttl_seconds) THEN NoSession
    ELSE store[session_id]

\* The return statement get_session leaves by
GetSessionPath(store, h, session_id, now, ttl_seconds) ==
    IF session_id \notin DOMAIN store THEN "not found"
    ELSE IF is_session_expired(h[store[session_id]], now, ttl_seconds) THEN "expired"
    ELSE "found"

\* Not the code's: a get_session that leaves an expired session in the store
GetSessionStoreKeep(store, h, session_id, now, ttl_seconds) == store

\* The store after get_session(session_id, now, ttl_seconds)
GetSessionStore(store, h, session_id, now, ttl_seconds) ==
    IF session_id \in DOMAIN store
       /\ is_session_expired(h[store[session_id]], now, ttl_seconds)
    THEN Popped(store, session_id)
    ELSE store

\* get_session(session_id, now=now, ttl_seconds=ttl_seconds)
get_session(session_id, now, ttl_seconds) ==
    /\ _active_sessions' = GetSessionStore(_active_sessions, heap, session_id, now, ttl_seconds)
    /\ ret' = [op |-> "get_session",
               path |-> GetSessionPath(_active_sessions, heap, session_id, now, ttl_seconds),
               val |-> GetSessionResult(_active_sessions, heap, session_id, now, ttl_seconds)]
    /\ UNCHANGED <<heap, clock, turns>>

\* cleanup_expired_sessions(now=now, ttl_seconds=ttl_seconds)
cleanup_expired_sessions(now, ttl_seconds) ==
    /\ _active_sessions' = SweptStore(_active_sessions, heap, now, ttl_seconds)
    /\ ret' = [op |-> "cleanup_expired_sessions",
               val |-> Cardinality(ExpiredKeys(_active_sessions, heap, now, ttl_seconds))]
    /\ UNCHANGED <<heap, clock, turns>>

\* delete_session(session_id)
delete_session(session_id) ==
    /\ _active_sessions' = Popped(_active_sessions, session_id)
    /\ ret' = [op |-> "delete_session",
               val |-> IF session_id \in DOMAIN _active_sessions
                       THEN _active_sessions[session_id] ELSE NoSession]
    /\ UNCHANGED <<heap, clock, turns>>

(* ------------------------------------------------------------------ *)
(* Specifications                                                      *)
(* ------------------------------------------------------------------ *)
\* No generator is suspended: every turn started so far has returned or was closed
Idle == \A t \in DOMAIN turns : turns[t].pc # "running"

Request ==
    \/ \E p \in PanelInputs, m \in StartMessages : panel_start_rejected(p, m)
    \/ \E p \in PanelInputs, m \in StartMessages, sk \in SkipInputs, sid \in FreshIds(heap) :
          panel_start(p, m, sk, sid)
    \/ \E sid \in SessionIdInputs(heap), m \in UserMessages :
          panel_continue_rejected(sid, m)
    \/ \E sid \in SessionIdInputs(heap), m \in UserMessages, sk \in SkipInputs :
          panel_continue(sid, m, sk)

\* A server that handles one request at a time, each request answered in one piece
\* (generate_panel_responses drains the generator); the service may fail.  The
\* servers are followed for session ids that do not repeat.
Next ==
    \/ Tick
    \/ \E t \in DOMAIN turns, reply \in ServiceReplies : TurnYield(t, reply)
    \/ \E t \in DOMAIN turns : TurnReturn(t)
    \/ Idle /\ Request

Spec == Init /\ [][Next]_vars

\* A server that handles one request at a time, each request answered as a stream
\* that its consumer may abandon; the service is up.
StreamNext ==
    \/ Tick
    \/ \E t \in DOMAIN turns, reply \in ReliableReplies : TurnYield(t, reply)
    \/ \E t \in DOMAIN turns : TurnReturn(t)
    \/ \E t \in DOMAIN turns : TurnClose(t)
    \/ Idle /\ Request

StreamSpec == Init /\ [][StreamNext]_vars

\* A threaded server (Flask's default): a request is taken at any time, and the
\* turns of the requests in flight interleave at their yields.
ThreadedNext ==
    \/ Tick
    \/ \E t \in DOMAIN turns, reply \in ServiceReplies : TurnYield(t, reply)
    \/ \E t \in DOMAIN turns : TurnReturn(t)
    \/ \E t \in DOMAIN turns : TurnClose(t)
    \/ Request

ThreadedSpec == Init /\ [][ThreadedNext]_vars

\* The callers of the session store: a caller of the module, with now and
\* ttl_seconds injected, and the request handlers that start no turn
StoreNext ==
    \/ Tick
    \/ \E p \in CreateInputs, sid \in uuid4(heap) : create_session(p, sid)
    \/ \E o \in DOMAIN heap : store_session(o)
    \/ \E sid \in SessionIdInputs(heap), now \in NowInputs, ttl \in TtlInputs :
          get_session(sid, now, ttl)
    \/ \E now \in NowInputs, ttl \in TtlInputs : cleanup_expired_sessions(now, ttl)
    \/ \E sid \in SessionIdInputs(heap) : delete_session(sid)
    \/ \E sid \in SessionIdInputs(heap), m \in UserMessages :
          panel_continue_rejected(sid, m)
    \/ \E sid \in SessionIdInputs(heap) : panel_summarize(sid)
    \/ \E sid \in SessionIdInputs(heap) : panel_end(sid)

StoreSpec == Init /\ [][StoreNext]_vars

\* A caller of the two creation functions
CreateNext ==
    \/ Tick
    \/ \E c \in TemplateInputs, m \in BOOLEAN, sid \in uuid4(heap) :
          create_panel_session(c, m, sid)
    \/ \E ids \in CustomInputs, m \in BOOLEAN, known \in MappingInputs, sid \in uuid4(heap) :
          create_custom_panel_session(ids, m, known, sid)

CreateSpec == Init /\ [][CreateNext]_vars

\* A caller of create_custom_panel_session
CustomNext ==
    \E ids \in CustomInputs, m \in BOOLEAN, known \in MappingInputs, sid \in uuid4(heap) :
       create_custom_panel_session(ids, m, known, sid)

CustomSpec == Init /\ [][CustomNext]_vars

\* A caller of the turn orchestrator: it creates one session and runs turns on it,
\* one after the other, each drained to its end, with any user message and nobody
\* skipped
TurnNext ==
    \/ /\ heap = <<>>
       /\ \E sid \in FreshIds(heap) :
             create_custom_panel_session(<<"dr-sigmund-2000", "dr-ada-sterling">>, TRUE,
                                         PERSONAS, sid)
    \/ /\ Idle
       /\ \E o \in DOMAIN heap, m \in CallMessages : iter_panel_responses(o, m, {})
    \/ \E t \in DOMAIN turns, reply \in ReliableReplies : TurnYield(t, reply)
    \/ \E t \in DOMAIN turns : TurnReturn(t)
    \/ \E o \in DOMAIN heap, m \in ContextMessages :
          \E pid \in Range(heap[o].persona_ids) : BuildContext(o, pid, m)
    \/ \E o \in DOMAIN heap, args \in ThresholdInputs : ShouldGenerateSummary(o, args)

TurnSpec == Init /\ [][TurnNext]_vars

\* The moderator operations, called between the turns of one session of two personas
ModeratorNext ==
    \/ /\ heap = <<>>
       /\ \E sid \in FreshIds(heap) :
             create_custom_panel_session(<<"dr-sigmund-2000", "dr-ada-sterling">>,
                                         TRUE, PERSONAS, sid)
    \/ /\ Idle
       /\ Len(turns) < MaxTurns
       /\ \E o \in DOMAIN heap, m \in {"Start", "Continue"} :
             iter_panel_responses(o, m, {})
    \/ \E t \in DOMAIN turns, reply \in ServiceReplies : TurnYield(t, reply)
    \/ \E t \in DOMAIN turns : TurnReturn(t)
    \/ /\ Idle
       /\ \E o \in DOMAIN heap, moderator \in ModeratorInputs, reply \in IntroReplies :
             GenerateModeratorIntro(o, moderator, reply)
    \/ /\ Idle
       /\ \E o \in DOMAIN heap, moderator \in ModeratorInputs, reply \in SummaryReplies :
             GeneratePanelSummary(o, moderator, reply)

ModeratorSpec == Init /\ [][ModeratorNext]_vars

\* One turn on a session of two personas, followed by the output of the service,
\* and the moderator operations after it
ParseNext ==
    \/ /\ heap = <<>>
       /\ \E sid \in FreshIds(heap) :
             create_custom_panel_session(<<"dr-sigmund-2000", "dr-ada-sterling">>, TRUE,
                                         PERSONAS, sid)
    \/ /\ turns = <<>>
       /\ \E o \in DOMAIN heap, m \in CallMessages : iter_panel_responses(o, m, {})
    \/ \E t \in DOMAIN turns, output \in RawOutputs : TurnYieldRaw(t, output)
    \/ \E t \in DOMAIN turns : TurnReturn(t)
    \/ /\ Idle
       /\ \E o \in DOMAIN heap, moderator \in ModeratorInputs, reply \in IntroReplies :
             GenerateModeratorIntro(o, moderator, reply)
    \/ /\ Idle
       /\ \E o \in DOMAIN heap, moderator \in ModeratorInputs, reply \in SummaryReplies :
             GeneratePanelSummary(o, moderator, reply)

ParseSpec == Init /\ [][ParseNext]_vars

\* Turns, one after the other, on one session of two personas, with a service that
\* is up and whose replies differ in their text
ReferenceNext ==
    \/ /\ heap = <<>>
       /\ \E sid \in FreshIds(heap) :
             create_custom_panel_session(<<"dr-sigmund-2000", "dr-ada-sterling">>,
                                         FALSE, PERSONAS, sid)
    \/ /\ Idle
       /\ Len(turns) < MaxTurns
       /\ \E o \in DOMAIN heap, m \in {"Start", "Continue"} :
             iter_panel_responses(o, m, {})
    \/ \E t \in DOMAIN turns, reply \in WordedReplies : TurnYield(t, reply)
    \/ \E t \in DOMAIN turns : TurnReturn(t)

ReferenceSpec == Init /\ [][ReferenceNext]_vars

\* A caller of detect_persona_references, before and after one turn on a session of
\* two personas
DetectNext ==
    \/ /\ heap = <<>>
       /\ \E sid \in FreshIds(heap) :
             create_custom_panel_session(<<"dr-sigmund-2000", "dr-ada-sterling">>,
                                         FALSE, PERSONAS, sid)
    \/ /\ turns = <<>>
       /\ \E o \in DOMAIN heap, m \in {"Start", "Continue"} :
             iter_panel_responses(o, m, {})
    \/ \E t \in DOMAIN turns, reply \in WordedReplies : TurnYield(t, reply)
    \/ \E t \in DOMAIN turns : TurnReturn(t)
    \/ /\ Idle
       /\ \E response_text \in DetectTexts, personas_config \in DetectConfigs :
             DetectPersonaReferences(response_text, personas_config)

DetectSpec == Init /\ [][DetectNext]_vars

\* No stream is being sent
Sent == \A t \in DOMAIN turns : turns[t].sse.on => turns[t].sse.at = "end"

\* A server that handles one request at a time; every start request asks for a
\* stream, which its consumer reads to its end; the service is up.
EventNext ==
    \/ /\ Sent
       /\ \E p \in PanelInputs, include_moderator \in BOOLEAN, sk \in SkipInputs :
             \E sid \in FreshIds(heap) :
                panel_start_stream(p, include_moderator, "Start", sk, sid)
    \/ \E t \in DOMAIN turns : StreamSession(t)
    \/ \E t \in DOMAIN turns : StreamIntro(t)
    \/ \E t \in DOMAIN turns, reply \in ReliableReplies : TurnYield(t, reply)
    \/ \E t \in DOMAIN turns : TurnReturn(t)
    \/ \E t \in DOMAIN turns : StreamDone(t)
    \/ \E t \in DOMAIN turns : StreamError(t)

EventSpec == Init /\ [][EventNext]_vars

(* ------------------------------------------------------------------ *)
(* Properties of a turn                                                *)
(* ------------------------------------------------------------------ *)
\* The persona ids of a sequence of responses
PersonaIds(responses) == [i \in DOMAIN responses |-> responses[i].persona_id]

\* The personas a turn has to hear: those of the session, in its order, that are
\* neither in the skip set nor without a configuration
Asked(persona_ids, skip_personas) ==
    SelectSeq(persona_ids, LAMBDA pid : pid \notin skip_personas /\ pid \in PERSONAS)

\* The step from this state to the next is the return of turn t
Completes(t) == turns[t].pc = "running" /\ turns'[t].pc = "complete"

\* The step from this state to the next is a yield of turn t
Yields(t) == turns[t].pc = "running" /\ Len(turns'[t].out) = Len(turns[t].out) + 1

\* The turns that have run to completion on object o
CompletedOn(o) == {t \in DOMAIN turns : turns[t].obj = o /\ turns[t].pc = "complete"}

\* C1: a turn that runs to its end has yielded exactly one response for each persona
\* of the session that is not skipped, in the order of session.persona_ids, and the
\* exchange added to the history for the turn holds just these responses in that
\* order.  (A persona without a configuration counts as skipped; a turn that no
\* persona answers is not asked to have an exchange.)
C1_FullTurn ==
    [][\A t \in DOMAIN turns :
          Completes(t) =>
             LET session == heap'[turns[t].obj]
                 history == session.discussion_history
                 out == turns[t].out
             IN  /\ PersonaIds(out) = Asked(session.persona_ids, turns[t].skip_personas)
                 /\ out # <<>> =>
                       /\ history # <<>>
                       /\ history[Len(history)] =
                             [user_message |-> turns[t].user_message, responses |-> out]]_vars

\* C2: exchange_count never decreases; the return of a turn raises it by exactly 1
\* and sets last_updated to the time of the return, whatever personas were skipped,
\* had no configuration or failed, and no other step of a turn changes either field;
\* so exchange_count is the number of turns that have run to completion.
C2_Counted ==
    \A o \in DOMAIN heap : heap[o].exchange_count = Cardinality(CompletedOn(o))

C2_Step ==
    \A o \in DOMAIN heap :
       LET done == {t \in DOMAIN turns : turns[t].obj = o /\ Completes(t)}
       IN  /\ heap'[o].exchange_count >= heap[o].exchange_count
           /\ heap'[o].exchange_count = heap[o].exchange_count + Cardinality(done)
           /\ done # {} => heap'[o].last_updated = isoformat(clock)
           /\ done = {} => heap'[o].last_updated = heap[o].last_updated

C2_ExchangeCount == [](C2_Counted) /\ [][C2_Step]_vars

\* Two turns have run to completion on a session and no persona answered in either
C2_Witness ==
    \E o \in DOMAIN heap :
       /\ heap[o].exchange_count = 2
       /\ Cardinality(CompletedOn(o)) = 2
       /\ heap[o].discussion_history = <<>>

\* C3: whenever no turn is running on a session, its exchange_count is the number of
\* exchanges in its discussion_history.
C3_CountIsLength ==
    \A o \in DOMAIN heap :
       (\A t \in DOMAIN turns : turns[t].obj = o => turns[t].pc # "running")
          => heap[o].exchange_count = Len(heap[o].discussion_history)

\* C4: every turn adds exactly one exchange to discussion_history: its first response
\* goes into an exchange created for it, also when the last exchange of the history
\* has the same user message; its later responses go into that exchange; and a turn
\* does not return without having added its exchange.
C4_FreshExchange ==
    [][\A t \in DOMAIN turns :
          LET before == heap[turns[t].obj].discussion_history
              after == heap'[turns[t].obj].discussion_history
          IN  /\ Yields(t) /\ turns[t].out = <<>> => Len(after) = Len(before) + 1
              /\ Yields(t) /\ turns[t].out # <<>> => Len(after) = Len(before)
              /\ Completes(t) => turns[t].out # <<>>]_vars

\* C5: when the service raises for a persona, that persona's response is the error
\* response (mood "shocked", the technical-difficulties text), it is yielded and added
\* to the history like any other, and the turn goes on: it is still running with every
\* later persona still to ask, it returns only when every non-skipped persona has
\* answered, and its return raises exchange_count by 1.
C5_Pending ==
    \A t \in DOMAIN turns :
       turns[t].pc = "running" =>
          PersonaIds(turns[t].out) \o Asked(turns[t].todo, {})
             = Asked(heap[turns[t].obj].persona_ids, turns[t].skip_personas)

C5_Step ==
    \A t \in DOMAIN turns :
       LET o == turns[t].obj
       IN  /\ (ret'.op = "yield" /\ ret'.turn = t /\ ret'.raised) =>
                 LET todo == DropUnconfigured(turns[t].todo)
                     out == turns'[t].out
                     history == heap'[o].discussion_history
                     last == history[Len(history)]
                     error == [persona_id |-> Head(todo),
                               persona_name |-> persona_name(Head(todo)),
                               response |-> ErrorText, mood |-> "shocked",
                               references |-> <<>>]
                 IN  /\ out = Append(turns[t].out, error)
                     /\ last.responses[Len(last.responses)] = error
                     /\ turns'[t].pc = "running"
                     /\ turns'[t].todo = Tail(todo)
           /\ Completes(t) =>
                 /\ PersonaIds(turns[t].out)
                       = Asked(heap[o].persona_ids, turns[t].skip_personas)
                 /\ heap'[o].exchange_count = heap[o].exchange_count + 1

C5_FailureIsAResponse == [](C5_Pending) /\ [][C5_Step]_vars

\* A completed turn whose first persona failed and whose second persona answered
C5_Witness ==
    \E o \in DOMAIN heap :
       /\ heap[o].exchange_count = 1
       /\ CompletedOn(o) # {}
       /\ Len(heap[o].discussion_history) = 1
       /\ LET responses == heap[o].discussion_history[1].responses
          IN  /\ Len(responses) = 2
              /\ responses[1].mood = "shocked" /\ responses[1].response = ErrorText
              /\ responses[2].response = "reply"

\* history after extends history before: no exchange and no response is taken away
Extends(after, before) ==
    /\ Len(after) >= Len(before)
    /\ \A i \in DOMAIN before :
          /\ after[i].user_message = before[i].user_message
          /\ Len(after[i].responses) >= Len(before[i].responses)
          /\ SubSeq(after[i].responses, 1, Len(before[i].responses)) = before[i].responses

\* C6: when the consumer of a streamed turn goes away after k responses, the close
\* changes no session, the turn makes no further call of the service, the k responses
\* it has yielded are the last k of the history's last exchange and stay in the
\* history, and no step of the turn has changed exchange_count or last_updated.
C6_Kept ==
    \A t \in DOMAIN turns :
       (turns[t].pc = "running" /\ turns[t].out # <<>>) =>
          LET history == heap[turns[t].obj].discussion_history
              responses == history[Len(history)].responses
              k == Len(turns[t].out)
          IN  /\ history[Len(history)].user_message = turns[t].user_message
              /\ Len(responses) >= k
              /\ SubSeq(responses, Len(responses) - k + 1, Len(responses)) = turns[t].out

C6_Step ==
    /\ \A o \in DOMAIN heap :
          Extends(heap'[o].discussion_history, heap[o].discussion_history)
    /\ \A t \in DOMAIN turns :
          LET o == turns[t].obj
          IN  /\ turns[t].pc = "closed" => turns'[t] = turns[t]
              /\ (turns[t].pc = "running" /\ turns'[t].pc = "closed") =>
                    /\ heap' = heap
                    /\ turns'[t].calls = turns[t].calls
              /\ (turns[t].pc = "running" /\ turns'[t].pc # "complete") =>
                    /\ heap'[o].exchange_count = heap[o].exchange_count
                    /\ heap'[o].last_updated = heap[o].last_updated

C6_Abandoned == [](C6_Kept) /\ [][C6_Step]_vars

\* A turn was closed after its first response with a persona still to ask
C6_Witness ==
    /\ ret.op = "close"
    /\ ret.unasked # <<>>
    /\ LET session == heap[turns[ret.turn].obj]
       IN  /\ turns[ret.turn].calls = 1
           /\ session.exchange_count = 0
           /\ Len(session.discussion_history) = 1
           /\ Len(session.discussion_history[1].responses) = 1
           /\ session.last_updated = session.created_at

\* C7: a session is never processed by two turns at once: while a turn on a session
\* has not finished, a turn started later on the same session has not begun to
\* iterate the personas (it has asked nobody and has not returned).
C7_OneTurnAtATime ==
    \A t1, t2 \in DOMAIN turns :
       (t1 < t2 /\ turns[t1].obj = turns[t2].obj /\ turns[t1].pc = "running") =>
          /\ turns[t2].pc = "running"
          /\ turns[t2].out = <<>>
          /\ turns[t2].calls = 0

(* ------------------------------------------------------------------ *)
(* Properties of the session store                                     *)
(* ------------------------------------------------------------------ *)
\* The time written in the last_updated of object o
LastUpdated(h, o) == h[o].last_updated[2]

\* store2 is store without the keys in gone, every other key as it was
Without(store2, store, gone) ==
    /\ DOMAIN store2 = (DOMAIN store) \ gone
    /\ \A sid \in DOMAIN store2 : store2[sid] = store[sid]

\* C8: get_session(id, now, ttl) returns the stored session exactly when id is in the
\* store and now - last_updated <= ttl, and then changes nothing; when id is stored
\* and now - last_updated > ttl it takes id, and only id, out of the store and returns
\* None; and after a call that returned None a second call with the same arguments
\* returns None again and leaves the store as it is.  No session object is changed.
C8_Post(session_id, now, ttl_seconds) ==
    LET stored == session_id \in DOMAIN _active_sessions
        age == now - LastUpdated(heap, _active_sessions[session_id])
    IN  /\ heap' = heap
        /\ (ret'.val # NoSession) <=> (stored /\ age <= ttl_seconds)
        /\ (stored /\ age <= ttl_seconds) =>
              /\ ret'.val = _active_sessions[session_id]
              /\ _active_sessions' = _active_sessions
        /\ ~stored => _active_sessions' = _active_sessions
        /\ (stored /\ age > ttl_seconds) =>
              Without(_active_sessions', _active_sessions, {session_id})
        /\ ret'.val = NoSession =>
              /\ GetSessionResult(_active_sessions', heap', session_id, now, ttl_seconds)
                    = NoSession
              /\ GetSessionStore(_active_sessions', heap', session_id, now, ttl_seconds)
                    = _active_sessions'

C8_GetSession ==
    [][ret'.op = "get_session" =>
          \A session_id \in SessionIdInputs(heap), now \in NowInputs, ttl_seconds \in TtlInputs :
             get_session(session_id, now, ttl_seconds) =>
                C8_Post(session_id, now, ttl_seconds)]_vars

\* get_session has just removed an expired session and left another one stored
C8_Witness ==
    /\ ret.op = "get_session"
    /\ ret.path = "expired"
    /\ ret.val = NoSession
    /\ DOMAIN _active_sessions # {}
    /\ \E o \in DOMAIN heap : heap[o].session_id \notin DOMAIN _active_sessions

\* C9: cleanup_expired_sessions(now, ttl) takes out of the store exactly the ids whose
\* session has now - last_updated > ttl, leaves every other id stored with the same
\* session, changes no session object, and returns the number of ids it took out.
C9_Post(now, ttl_seconds) ==
    LET expired == {sid \in DOMAIN _active_sessions :
                       now - LastUpdated(heap, _active_sessions[sid]) > ttl_seconds}
    IN  /\ Without(_active_sessions', _active_sessions, expired)
        /\ heap' = heap
        /\ ret'.val = Cardinality(expired)

C9_Cleanup ==
    [][ret'.op = "cleanup_expired_sessions" =>
          \A now \in NowInputs, ttl_seconds \in TtlInputs :
             cleanup_expired_sessions(now, ttl_seconds) => C9_Post(now, ttl_seconds)]_vars

\* cleanup_expired_sessions has just removed one session and kept another
C9_Witness ==
    /\ ret.op = "cleanup_expired_sessions"
    /\ ret.val = 1
    /\ Cardinality(DOMAIN _active_sessions) = 1
    /\ Len(heap) >= 2

\* C10: store_session(session) stores the session under its session_id, in the place
\* of whatever was stored under that id, leaves the other ids alone, and sets the
\* session's last_updated (and nothing else) to the current time; a get_session for
\* that id at the same instant then returns that session and leaves it stored, for
\* every ttl, whatever last_updated was before.
C10_Post(o) ==
    LET sid == heap[o].session_id
    IN  /\ DOMAIN _active_sessions' = (DOMAIN _active_sessions) \cup {sid}
        /\ _active_sessions'[sid] = o
        /\ \A other \in (DOMAIN _active_sessions) \ {sid} :
              _active_sessions'[other] = _active_sessions[other]
        /\ Len(heap') = Len(heap)
        /\ \A p \in DOMAIN heap :
              /\ p # o => heap'[p] = heap[p]
              /\ p = o => /\ LastUpdated(heap', o) = clock
                          /\ [heap'[o] EXCEPT !.last_updated = heap[o].last_updated] = heap[o]
        /\ \A ttl_seconds \in TtlInputs :
              /\ GetSessionResult(_active_sessions', heap', sid, clock, ttl_seconds) = o
              /\ GetSessionStore(_active_sessions', heap', sid, clock, ttl_seconds)
                    = _active_sessions'

C10_StoreSession ==
    [][ret'.op = "store_session" =>
          \A o \in DOMAIN heap : store_session(o) => C10_Post(o)]_vars

\* store_session has just put a session in the place of another session with the same
\* id, and the session's last_updated was older than the default ttl
C10_Witness ==
    /\ ret.op = "store_session"
    /\ ret.replaced \notin {NoSession, ret.session}
    /\ clock - ret.before[2] > SESSION_TTL_SECONDS
    /\ _active_sessions[heap[ret.session].session_id] = ret.session

\* C11: delete_session(id) returns the stored session and takes id, and only id,
\* out of the store when id is stored, and returns None and leaves the store as it
\* is when it is not; it changes no session object.  While id is not in the store
\* get_session(id) returns None for every now and ttl, no continue request for id
\* starts a turn, and the summarize and end requests for id are answered 404; id
\* comes back into the store only by a store_session of a session with that id.
C11_Post(session_id) ==
    LET stored == session_id \in DOMAIN _active_sessions
    IN  /\ heap' = heap
        /\ stored => /\ ret'.val = _active_sessions[session_id]
                     /\ Without(_active_sessions', _active_sessions, {session_id})
        /\ ~stored => /\ ret'.val = NoSession
                      /\ _active_sessions' = _active_sessions
        /\ session_id \notin DOMAIN _active_sessions'

C11_Gone ==
    \A session_id \in SessionIdInputs(heap) \ DOMAIN _active_sessions :
       /\ \A now \in NowInputs \cup {clock}, ttl_seconds \in TtlInputs \cup {SESSION_TTL_SECONDS} :
             GetSessionResult(_active_sessions, heap, session_id, now, ttl_seconds) = NoSession
       /\ \A m \in UserMessages, sk \in SkipInputs :
             ~ENABLED panel_continue(session_id, m, sk)

C11_Step ==
    /\ ret'.op = "delete_session" =>
          \A session_id \in SessionIdInputs(heap) :
             delete_session(session_id) => C11_Post(session_id)
    /\ ret'.op \in {"panel_summarize", "panel_end"} =>
          \A session_id \in SessionIdInputs(heap) \ DOMAIN _active_sessions :
             (panel_summarize(session_id) \/ panel_end(session_id)) => ret'.status = 404
    /\ \A session_id \in (DOMAIN _active_sessions') \ DOMAIN _active_sessions :
          /\ ret'.op = "store_session"
          /\ heap[ret'.session].session_id = session_id

C11_DeleteSession == [](C11_Gone) /\ [][C11_Step]_vars

\* delete_session has just removed a stored session and returned it
C11_Witness ==
    /\ ret.op = "delete_session"
    /\ ret.val # NoSession
    /\ heap[ret.val].session_id \notin DOMAIN _active_sessions

(* ------------------------------------------------------------------ *)
(* Properties of session creation                                      *)
(* ------------------------------------------------------------------ *)
PersonaCountOk(n) == 2 <= n /\ n <= 4

\* C12: every session that create_panel_session or create_custom_panel_session
\* returns has 2 to 4 persona ids, and a creation that would give fewer than 2 or
\* more than 4 fails with the range error and creates no session.
C12_TwoToFour ==
    [][/\ \A o \in DOMAIN heap' : PersonaCountOk(Len(heap'[o].persona_ids))
       /\ \A c \in TemplateInputs \cap DOMAIN _panel_configs, m \in BOOLEAN, sid \in uuid4(heap) :
             (create_panel_session(c, m, sid) /\ ~PersonaCountOk(Len(_panel_configs[c]))) =>
                /\ heap' = heap
                /\ ret'.error = "persona_ids must contain 2-4 personas"
       /\ \A ids \in CustomInputs, m \in BOOLEAN, known \in MappingInputs, sid \in uuid4(heap) :
             (create_custom_panel_session(ids, m, known, sid) /\ ~PersonaCountOk(Len(ids))) =>
                /\ heap' = heap
                /\ ret'.error = "persona_ids must contain 2-4 personas"]_vars

\* C13: no two sessions that the creation functions have returned have the same
\* session_id, and a store_session never puts a session in the place of a different
\* session stored under its id.
C13_UniqueIds ==
    /\ \A o1, o2 \in DOMAIN heap : o1 # o2 => heap[o1].session_id # heap[o2].session_id
    /\ ret.op = "store_session" => ret.replaced \in {NoSession, ret.session}

(* ------------------------------------------------------------------ *)
(* Properties of the context of a persona                              *)
(* ------------------------------------------------------------------ *)
\* C14: a turn that is run with an empty or whitespace-only user message yields no
\* response, adds nothing to the history and does not count as an exchange: no step
\* of such a turn is a yield or a return, and none changes the session.
C14_EmptyMessageRaises ==
    [][\A t \in DOMAIN turns :
          (turns[t].pc = "running" /\ IsBlank(turns[t].user_message)) =>
             /\ ~Yields(t)
             /\ ~Completes(t)
             /\ heap'[turns[t].obj] = heap[turns[t].obj]]_vars

\* What a context lists of a sequence of responses
Listed(responses) ==
    [i \in DOMAIN responses |->
        [persona_name |-> responses[i].persona_name, said |-> responses[i].response]]

\* C15: the context built for a persona lists, as previous panelist responses, just
\* the responses given so far in the turn it is built in; so it has no such list
\* for the first persona of a turn, whatever exchanges the session already has.
C15_OnlyThisTurn ==
    [][\A t \in DOMAIN turns :
          (Yields(t) /\ ret'.op = "yield" /\ ret'.turn = t /\ ret'.context # ValueError) =>
             ret'.context.previous = Listed(turns[t].out)]_vars

\* The exchanges of a history that are among its last three
Window(history) == {k \in DOMAIN history : k > Len(history) - 3}

\* The places <<exchange, response>> of the window of a history, and how many of
\* them come before exchange k
Places(history) ==
    UNION {{<<k, j>> : j \in DOMAIN history[k].responses} : k \in Window(history)}
Offset(history, k) == Cardinality({pl \in Places(history) : pl[1] < k})

\* C16: the responses a context lists are exactly the responses of the last three
\* exchanges of discussion_history, exchange by exchange and in the order they were
\* given: nothing of an older exchange is listed, and the responses given so far in
\* the turn the context is built in are the last ones listed.
C16_Step ==
    \A t \in DOMAIN turns :
       (Yields(t) /\ ret'.op = "yield" /\ ret'.turn = t /\ ret'.context # ValueError) =>
          LET history == heap[turns[t].obj].discussion_history
              previous == ret'.context.previous
              given == turns[t].out
          IN  /\ Len(previous) = Cardinality(Places(history))
              /\ \A pl \in Places(history) :
                    previous[Offset(history, pl[1]) + pl[2]]
                       = [persona_name |-> history[pl[1]].responses[pl[2]].persona_name,
                          said |-> history[pl[1]].responses[pl[2]].response]
              /\ Len(previous) >= Len(given)
              /\ SubSeq(previous, Len(previous) - Len(given) + 1, Len(previous))
                    = Listed(given)

C16_LastThreeExchanges == [][C16_Step]_vars

\* A context was built in the fifth exchange of a session: it lists the five
\* responses of exchanges 3 to 5 and none of the four of exchanges 1 and 2
C16_Witness ==
    /\ ret.op = "yield"
    /\ ret.context # ValueError
    /\ Len(ret.context.previous) = 5
    /\ LET history == heap[turns[ret.turn].obj].discussion_history
       IN  /\ Len(history) = 5
           /\ \A k \in 1..4 : Len(history[k].responses) = 2

\* C17: build_discussion_context changes nothing of the session it is given
\* (persona_ids, discussion_history, exchange_count and last_updated are what they
\* were, whether it returns a context or raises the empty-message error) nor of the
\* store, and a second build for the same session, persona and message, made right
\* after the first, returns what the first returned.
C17_Step ==
    ret'.op = "build_discussion_context" =>
       LET o == ret'.obj
       IN  /\ heap'[o].persona_ids = heap[o].persona_ids
           /\ heap'[o].discussion_history = heap[o].discussion_history
           /\ heap'[o].exchange_count = heap[o].exchange_count
           /\ heap'[o].last_updated = heap[o].last_updated
           /\ heap' = heap
           /\ _active_sessions' = _active_sessions
           /\ build_discussion_context(heap'[o], ret'.persona_id, ret'.user_message)
                 = ret'.val

C18_NotItsAuthor ==
    [][\A t \in DOMAIN turns :
          Yields(t) =>
             LET response == turns'[t].out[Len(turns'[t].out)]
             IN  response.persona_id \notin Range(response.references)]_vars

\* The names of a sequence of events
Names(events) == [i \in DOMAIN events |-> events[i].event]

\* s is the beginning of q
Begins(s, q) == Len(s) <= Len(q) /\ SubSeq(q, 1, Len(s)) = s

\* The events of a start stream that nothing interrupts, for a session and the
\* personas skipped: their names, and the personas of its panel_response events
C19_Names(session, skip_personas) ==
    <<"session">>
       \o (IF session.has_moderator THEN <<"moderator_intro">> ELSE <<>>)
       \o [i \in DOMAIN Asked(session.persona_ids, skip_personas) |-> "panel_response"]
       \o <<"panel_state", "done">>

\* C19: the events of a streamed start are, in this order, the session event, the
\* moderator_intro event exactly if the session has a moderator, one panel_response
\* event for each persona that is not skipped, in the order of persona_ids, and one
\* panel_state event whose exchange_count is one more than the count the session
\* started with (the done event closes the stream).  An error event is sent only
\* in place of the rest of this sequence: it is the last event, the stream is over
\* with it, and what was sent before it is a beginning of the sequence that stops
\* before the panel_state event.
C19_EventOrder ==
    \A t \in DOMAIN turns :
       turns[t].sse.on =>
          LET events == turns[t].sse.events
              session == heap[turns[t].obj]
              names == C19_Names(session, turns[t].skip_personas)
              asked == Asked(session.persona_ids, turns[t].skip_personas)
              errors == {i \in DOMAIN events : events[i].event = "error"}
              sent == IF errors = {} THEN events ELSE SubSeq(events, 1, Len(events) - 1)
              answers == SelectSeq(sent, LAMBDA e : e.event = "panel_response")
          IN  /\ errors \subseteq {Len(events)}
              /\ errors # {} => turns[t].sse.at = "end" /\ Len(sent) < Len(names) - 2
              /\ Begins(Names(sent), names)
              /\ Begins([i \in DOMAIN answers |-> answers[i].persona_id], asked)
              /\ (turns[t].sse.at = "end" /\ errors = {}) => Names(events) = names
              /\ \A i \in DOMAIN sent :
                    sent[i].event = "panel_state" =>
                       /\ sent[i].exchange_count = sent[1].exchange_count + 1
                       /\ sent[i].exchange_count = session.exchange_count

\* A stream with the intro of the moderator and two panel_response events has been
\* sent to its end
C19_Witness ==
    \E t \in DOMAIN turns :
       /\ turns[t].sse.on
       /\ turns[t].sse.at = "end"
       /\ Names(turns[t].sse.events)
             = <<"session", "moderator_intro", "panel_response", "panel_response",
                 "panel_state", "done">>
       /\ turns[t].sse.events[5].exchange_count = 1

\* C20: should_generate_summary(session, threshold=T) returns true exactly if
\* session.exchange_count >= T, where T is 3 for a call without a threshold, and
\* leaves the session and the store as they were.
C20_Step ==
    ret'.op = "should_generate_summary" =>
       LET session == heap[ret'.obj]
           T == IF Len(ret'.args) = 0 THEN 3 ELSE ret'.args[1]
       IN  /\ ret'.val \in BOOLEAN
           /\ ret'.val <=> session.exchange_count >= T
           /\ heap'[ret'.obj] = session
           /\ heap' = heap
           /\ _active_sessions' = _active_sessions

C20_ShouldSummarize == [][C20_Step]_vars

\* Asked without a threshold about a session of exactly three exchanges: true
C20_Witness ==
    /\ ret.op = "should_generate_summary"
    /\ ret.args = <<>>
    /\ ret.val
    /\ heap[ret.obj].exchange_count = 3

\* C21: when the service raises, generate_moderator_intro returns the fixed
\* welcome and generate_panel_summary, on a session with history, returns the fixed
\* summary: a response of persona moderator-dr-panel with mood neutral, not an
\* error; the session and the store are left as they were.
C21_Step ==
    (ret'.op \in {"generate_moderator_intro", "generate_panel_summary"} /\ ret'.raised) =>
       LET session == heap[ret'.obj]
           fixed == IF ret'.op = "generate_moderator_intro"
                    THEN "Welcome! Today's panel is ready to discuss your concerns."
                    ELSE "The panel has provided diverse perspectives on your situation. Key themes include understanding your feelings and finding practical solutions."
       IN  /\ heap' = heap
           /\ _active_sessions' = _active_sessions
           /\ (ret'.op = "generate_panel_summary" => session.discussion_history # <<>>) =>
                  /\ DOMAIN ret'.val
                        = {"persona_id", "persona_name", "response", "mood", "references"}
                  /\ ret'.val.persona_id = "moderator-dr-panel"
                  /\ ret'.val.mood = "neutral"
                  /\ ret'.val.response = fixed

C21_ModeratorFallbacks == [][C21_Step]_vars

\* The service raised while a session with history was summarized
C21_Witness ==
    /\ ret.op = "generate_panel_summary"
    /\ ret.raised
    /\ ret.asked
    /\ heap[ret.obj].discussion_history # <<>>
    /\ ret.val.persona_id = "moderator-dr-panel"

\* C22: generate_panel_summary on a session with an empty discussion_history raises
\* the "No discussion history" error, whatever the service would do: it returns no
\* response, does not ask the service, and leaves the session as it was.
C22_Step ==
    (ret'.op = "generate_panel_summary" /\ heap[ret'.obj].discussion_history = <<>>) =>
       /\ DOMAIN ret'.val = {"raised"}
       /\ ret'.val.raised
             = "No discussion history to summarize. Cannot generate summary for empty session."
       /\ ~ret'.asked
       /\ heap' = heap
       /\ _active_sessions' = _active_sessions

C22_NoHistoryNoSummary == [][C22_Step]_vars

\* A summary of a session without history was asked for, with a service that is up
C22_Witness ==
    /\ ret.op = "generate_panel_summary"
    /\ ~ret.raised
    /\ heap[ret.obj].discussion_history = <<>>
    /\ ret.val = NoHistoryError

\* "needle in text" between strings, written for the claims
Occurs(needle, text) ==
    \E i \in 1..(Len(text) - Len(needle) + 1) :
       SubSeq(text, i, i + Len(needle) - 1) = needle

\* C24: create_custom_panel_session with 2 to 4 persona ids and a mapping of the
\* known personas fails, if some id is not in the mapping, with an "Unknown persona
\* IDs" error that names every such id and creates no session, and returns a new
\* session with these ids if all are in the mapping; without a mapping it returns a
\* session whatever the ids are.
C24_Post(ids, known) ==
    LET unknown == {ids[i] : i \in DOMAIN ids} \ known
    IN  IF known # NoMapping /\ unknown # {}
        THEN /\ Occurs("Unknown persona IDs", ret'.error)
             /\ \A pid \in unknown : Occurs("'" \o pid \o "'", ret'.error)
             /\ \A i \in DOMAIN ids :
                   ids[i] \in known => ~Occurs("'" \o ids[i] \o "'", ret'.error)
             /\ ret'.val = NoSession
             /\ heap' = heap
        ELSE /\ ret'.error = None
             /\ ret'.val = Len(heap) + 1
             /\ Len(heap') = Len(heap) + 1
             /\ heap'[ret'.val].persona_ids = ids

C24_UnknownPersonas ==
    [][ret'.op = "create_custom_panel_session" =>
          \A ids \in CustomInputs, m \in BOOLEAN, known \in MappingInputs, sid \in uuid4(heap) :
             (create_custom_panel_session(ids, m, known, sid) /\ PersonaCountOk(Len(ids))) =>
                C24_Post(ids, known)]_vars

\* A creation has failed for a list with two ids that are not in the mapping
C24_Witness ==
    /\ ret.op = "create_custom_panel_session"
    /\ ret.val = NoSession
    /\ ret.error = "Unknown persona IDs: ['dr-nobody', 'dr-nemo']"

\* C23: build_discussion_context raises the empty-message error for every message
\* that is empty or holds nothing but whitespace, and returns a context, which
\* carries the message as given, for every other message.
C23_Step ==
    ret'.op = "build_discussion_context" =>
       LET m == ret'.user_message
           only_whitespace ==
              ~\E i \in 1..Len(m) : SubSeq(m, i, i) \notin {" ", "\t", "\n", "\r"}
       IN  IF only_whitespace
           THEN ret'.val = ValueError
           ELSE /\ ret'.val # ValueError
                /\ ret'.val.user_message = m

C23_BlankMessageRaises == [][C23_Step]_vars

\* The context of a message of spaces, a tab and a newline was asked for, and
\* refused
C23_Witness ==
    /\ ret.op = "build_discussion_context"
    /\ ret.user_message = " \t\n"
    /\ ret.val = ValueError

\* The forms of the names of the personas, as the claim C25 describes them: the
\* name without its credential suffix, its first two words, and its last word when
\* that has more than 3 characters, all in lower case
C25_Forms ==
    [pid \in {"dr-sigmund-2000", "dr-ada-sterling", "captain-whiskers", "dr-mei-li"} |->
        CASE pid = "dr-sigmund-2000" -> {"dr. sigmund 2000", "dr. sigmund", "2000"}
          [] pid = "dr-ada-sterling" -> {"dr. ada sterling", "dr. ada", "sterling"}
          [] pid = "captain-whiskers" -> {"captain whiskers", "whiskers"}
          [] pid = "dr-mei-li" -> {"dr. mei li", "dr. mei"}]

\* C25: detect_persona_references returns the id of a persona of the configuration
\* exactly when the text, compared without regard to case, contains the persona's
\* name without its credential suffix, or the first two words of it, or its last
\* word when that is longer than 3 characters; it returns each such id once and no
\* other id.
C25_Step ==
    ret'.op = "detect_persona_references" =>
       LET text == lower(ret'.response_text)
           found == {ret'.val[i] : i \in DOMAIN ret'.val}
       IN  /\ found \subseteq ret'.personas_config
           /\ Cardinality(found) = Len(ret'.val)
           /\ \A pid \in ret'.personas_config :
                 pid \in found <=> \E form \in C25_Forms[pid] : Occurs(form, text)

C25_ReferencesByName == [][C25_Step]_vars

\* Detection has found one persona by its last word in capitals, and not the
\* other one of the configuration
C25_Witness ==
    /\ ret.op = "detect_persona_references"
    /\ ret.response_text = "STERLING said so"
    /\ ret.val = <<"dr-ada-sterling">>
    /\ "captain-whiskers" \in ret.personas_config

\* C26: when the turns of two requests on one session interleave at their yields,
\* the responses of a turn still go to one exchange that has the message of the
\* turn, and the turn adds one exchange only: at every yield of a turn that has
\* yielded before, no exchange is added to the history of its session, and one
\* exchange with the message of the turn holds all the responses the turn has
\* yielded.
C26_Step ==
    \A t \in DOMAIN turns :
       (Yields(t) /\ turns[t].out # <<>>) =>
          LET o == turns[t].obj
              history == heap'[o].discussion_history
          IN  /\ Len(history) = Len(heap[o].discussion_history)
              /\ \E e \in DOMAIN history :
                    /\ history[e].user_message = turns[t].user_message
                    /\ \A i \in DOMAIN turns'[t].out :
                          \E j \in DOMAIN history[e].responses :
                             history[e].responses[j] = turns'[t].out[i]

C26_OneExchangePerTurn == [][C26_Step]_vars

\* C27: a persona of the session without a configuration is passed over in a turn.
\* Each response a turn yields is that of the first persona still to be asked that
\* has a configuration, with one service call at most and one response added to
\* the history, and the personas after it are left to be asked, in their order;
\* the turn returns only when no persona with a configuration is left, without a
\* further call or response, and exchange_count is incremented by it.
C27_Step ==
    \A t \in DOMAIN turns :
       turns[t].pc = "running" =>
          LET todo == turns[t].todo
              o == turns[t].obj
              configured == {k \in DOMAIN todo : todo[k] \in PERSONAS}
              before == all_responses(heap[o].discussion_history)
              after == all_responses(heap'[o].discussion_history)
          IN  /\ Yields(t) =>
                    /\ configured # {}
                    /\ LET k == CHOOSE i \in configured : \A j \in configured : i <= j
                           out == turns'[t].out
                       IN  /\ out[Len(out)].persona_id = todo[k]
                           /\ turns'[t].todo = SubSeq(todo, k + 1, Len(todo))
                    /\ turns'[t].calls <= turns[t].calls + 1
                    /\ Len(after) = Len(before) + 1
                    /\ heap'[o].exchange_count = heap[o].exchange_count
              /\ turns'[t].pc = "complete" =>
                    /\ configured = {}
                    /\ turns'[t].calls = turns[t].calls
                    /\ after = before
                    /\ heap'[o].exchange_count = heap[o].exchange_count + 1
              /\ turns'[t].pc \in {"running", "complete"}

\* No response of a history is that of a persona without a configuration
C27_NoResponse ==
    \A o \in DOMAIN heap :
       LET responses == all_responses(heap[o].discussion_history)
       IN  \A i \in DOMAIN responses : responses[i].persona_id \in PERSONAS

C27_UnconfiguredSkipped == [](C27_NoResponse) /\ [][C27_Step]_vars

\* A turn on the panel whose first persona has no configuration has returned: the
\* other persona was asked and has answered, and the turn is counted
C27_Witness ==
    \E t \in DOMAIN turns :
       /\ turns[t].pc = "complete"
       /\ turns[t].calls = 1
       /\ LET session == heap[turns[t].obj]
          IN  /\ session.persona_ids = <<"dr-rex-hardcastle", "dr-ada-sterling">>
              /\ session.exchange_count = 1
              /\ Len(session.discussion_history) = 1
              /\ Len(session.discussion_history[1].responses) = 1
              /\ session.discussion_history[1].responses[1].persona_id = "dr-ada-sterling"

\* The response a turn has yielded last
LastOut(t) == turns'[t].out[Len(turns'[t].out)]

\* The text json.loads is given for an output does not decode
Undecodable(output) ==
    /\ ~output.raises
    /\ json_loads(json_text(strip(output.text))) = JSONDecodeError

\* C28: when what lies between the first "{" and the last "}" of the output of the
\* service does not decode, the response has the mood 'neutral' and its text is the
\* whole output (leading and trailing spaces apart), the words before the "{" and
\* after the "}" included.  (Outputs that are empty or blank, which the placeholder
\* stands in for, are left aside.)
C28_RawFallback ==
    [][\A t \in DOMAIN turns, output \in RawOutputs :
          (/\ TurnYieldRaw(t, output)
           /\ ~IsBlank(turns[t].user_message)
           /\ Undecodable(output)
           /\ ~IsBlank(output.text)) =>
             /\ LastOut(t).mood = "neutral"
             /\ LastOut(t).response = strip(output.text)]_vars

\* The responses the turns have yielded and the histories hold
Produced ==
    {turns[t].out[i] : <<t, i>> \in {p \in (DOMAIN turns) \X (1..2) : p[2] <= Len(turns[p[1]].out)}}
       \cup UNION {{all_responses(heap[o].discussion_history)[i] :
                      i \in DOMAIN all_responses(heap[o].discussion_history)} :
                   o \in DOMAIN heap}

\* The response the moderator has just returned, if it has
ModeratorProduced ==
    IF /\ ret.op \in {"generate_moderator_intro", "generate_panel_summary"}
       /\ "mood" \in DOMAIN ret.val
    THEN {ret.val} ELSE {}

\* What the output of the service decodes to, when it is a JSON object
DecodedObject(output) == json_loads(json_text(strip(output.text)))
IsDecodedObject(output) ==
    /\ ~output.raises
    /\ DecodedObject(output) # JSONDecodeError
    /\ "number" \notin DOMAIN DecodedObject(output)

\* C29: every response of a turn and of the moderator has one of the five moods,
\* whether the service has answered with a JSON object, with a text that does not
\* decode, or has failed; and when the object the service answers with has no mood
\* or a mood that is not one of the five, the mood of the response is 'neutral'.
C29_Moods ==
    \A response \in Produced \cup ModeratorProduced :
       response.mood \in {"thinking", "amused", "concerned", "shocked", "neutral"}

C29_Step ==
    \A t \in DOMAIN turns, output \in RawOutputs :
       (/\ TurnYieldRaw(t, output)
        /\ ~IsBlank(turns[t].user_message)
        /\ IsDecodedObject(output)) =>
          LET data == DecodedObject(output)
          IN  IF "mood" \in DOMAIN data
                 /\ data.mood \in {"thinking", "amused", "concerned", "shocked", "neutral"}
              THEN LastOut(t).mood = data.mood
              ELSE LastOut(t).mood = "neutral"

C29_ValidMood == [](C29_Moods) /\ [][C29_Step]_vars

\* A turn has returned in which the service gave the mood "happy" to one persona,
\* whose response is 'neutral', and failed for the other, whose response is
\* 'shocked'
C29_Witness ==
    /\ turns # <<>>
    /\ turns[1].pc = "complete"
    /\ LET responses == heap[1].discussion_history[1].responses
       IN  /\ Len(responses) = 2
           /\ responses[1].response = "Tell me more."
           /\ responses[1].mood = "neutral"
           /\ responses[2].mood = "shocked"

\* C30: no response a turn yields or appends to the history has a text that is
\* empty or holds whitespace only; when the text decoded from the output of the
\* service is empty or blank, the response is the placeholder that names the
\* persona.
C30_NotEmpty ==
    \A response \in Produced :
       \E i \in 1..Len(response.response) :
          SubSeq(response.response, i, i) \notin {" ", "\t", "\n", "\r"}

C30_Step ==
    \A t \in DOMAIN turns, output \in RawOutputs :
       (/\ TurnYieldRaw(t, output)
        /\ ~IsBlank(turns[t].user_message)
        /\ \/ /\ IsDecodedObject(output)
              /\ "response" \in DOMAIN DecodedObject(output)
              /\ DecodedObject(output).response \in {"", "   "}
           \/ /\ Undecodable(output)
              /\ output.text \in {"", "   "}) =>
          LastOut(t).response =
             (IF LastOut(t).persona_id = "dr-sigmund-2000"
              THEN "I need a moment to process this... Dr. Sigmund 2000"
              ELSE "I need a moment to process this... Dr. Ada Sterling")

C30_NoEmptyBubble == [](C30_NotEmpty) /\ [][C30_Step]_vars

\* A turn has returned in which the service gave an empty response to the first
\* persona and no output at all to the second: the history holds the placeholder
\* of each
C30_Witness ==
    /\ turns # <<>>
    /\ turns[1].pc = "complete"
    /\ heap[1].discussion_history # <<>>
    /\ LET responses == heap[1].discussion_history[1].responses
       IN  /\ Len(responses) = 2
           /\ responses[1].mood = "concerned"
           /\ responses[1].response = "I need a moment to process this... Dr. Sigmund 2000"
           /\ responses[2].mood = "neutral"
           /\ responses[2].response = "I need a moment to process this... Dr. Ada Sterling"

====
